---- MODULE Spec2Model ----
(***************************************************************************)
(* Model of the atomic-week productivity tracker: the embedded SQLite      *)
(* store and its data access functions (src/src/hooks/useDatabase.ts),     *)
(* the React Query cache hooks built on them, and the screen handlers      *)
(* that drive them (today.tsx, week.tsx, the Settings screen).             *)
(*                                                                         *)
(* Encoding of JavaScript / SQL values:                                    *)
(*   - an optional argument is a sequence: <<>> is undefined, <<v>> is v;  *)
(*   - NullId (0) is the NULL categoryId, NullText the NULL text value;    *)
(*   - a text is a TLA+ string, read character by character with Head     *)
(*     and Tail (parseInt and trim walk over it);                          *)
(*   - times are epoch milliseconds, local time is UTC + tz.               *)
(***************************************************************************)
EXTENDS Integers, Sequences, FiniteSets, TLC

VARIABLES
    db,        \* the SQLite database file
    now,       \* the clock of Date.now()
    tz,        \* offset of the device's time zone from UTC
    ret,       \* what the last direct call of a data access function did
    cache,     \* state of every query of the React Query client
    pending,   \* failed mutations that wait for their retry
    ui,        \* the last screen handler that ran and how it ended
    mounted,   \* whether the mount effect of RootLayout has run
    settings,  \* the category list held by the Settings screen
    appState,  \* AppState.currentState of the device
    timeHook,  \* the useCurrentTime of a screen and the timers it scheduled
    categoryHook, \* the useDefaultCategory of a screen and the state it drives
    form,      \* the record form of the Today or Week screen
    loaded,    \* the records the Today screen got from useTodayRecords
    week       \* the week the Week or Statistics screen shows

vars == <<db, now, tz, ret, cache, pending, ui, mounted, settings,
          appState, timeHook, categoryHook, form, loaded, week>>

-----------------------------------------------------------------------------
(* Bounds of the model *)

\* highest categories.id the AUTOINCREMENT counter may hand out
MaxCatId == 6
\* highest records.id the AUTOINCREMENT counter may hand out
MaxRecId == 2
\* number of local calendar days the modelled timestamps span
MaxDays == 2
\* number of milliseconds the clock may advance
MaxTicks == 1
\* number of failed mutations that may wait for their retry at once
MaxPending == 1
MaxShift == 2
MaxPresses == 3

-----------------------------------------------------------------------------
(* Values *)

NullId == 0
NullText == "<null>"
Undefined == <<>>
Some(v) == <<v>>

MsPerSecond == 1000
MsPerMinute == 1000 * 60
MsPerHour == 60 * MsPerMinute
MsPerDay == 24 * MsPerHour

\* first modelled local day: Monday 1970-01-05, four days after the epoch
FirstDay == 7 - 3

\* the epoch millisecond at local day d, local millisecond-of-day x
LocalTime(d, x) == d * MsPerDay + x - tz

Days == FirstDay .. (FirstDay + MaxDays - 1)

\* timestamps on both edges of every modelled local day
BoundaryTimes == { LocalTime(d, x) : d \in Days, x \in {0, MsPerDay - 1} }
FirstTime == LocalTime(FirstDay, 0)
LastTime == LocalTime(FirstDay + MaxDays - 1, MsPerDay - 1)

-----------------------------------------------------------------------------
(* Local date arithmetic of Date / dayjs *)

MsOfDay(t) == (t + tz) % MsPerDay
getHours(t) == MsOfDay(t) \div MsPerHour
getMinutes(t) == (MsOfDay(t) % MsPerHour) \div MsPerMinute
getSeconds(t) == (MsOfDay(t) % MsPerMinute) \div MsPerSecond
getMilliseconds(t) == MsOfDay(t) % MsPerSecond

\* Date.prototype.setHours(h, m, s, ms): replaces the four local time fields,
\* keeps the local date
setHours(t, h, m, s, ms) ==
    t - (getHours(t) * MsPerHour + getMinutes(t) * MsPerMinute
         + getSeconds(t) * MsPerSecond + getMilliseconds(t))
      + h * MsPerHour + m * MsPerMinute + s * MsPerSecond + ms

-----------------------------------------------------------------------------
(* The embedded store: tables, rows and the SQL statements of the code *)

\* an outcome of a data access function: the store afterwards, whether it
\* threw, how many SQL statements it issued, the rows of a SELECT, whether it
\* returned null without reaching the store, and the rows a write changed
Outcome(d, raised, sql, rows, isNull, changes) ==
    [db |-> d, raised |-> raised, sql |-> sql, rows |-> rows,
     isNull |-> isNull, changes |-> changes, log |-> <<>>, error |-> "none"]

\* console.log / console.error of one line during a call
Logged(o, line) == [o EXCEPT !.log = Append(@, line)]

\* the store cannot run a statement: a table it names does not exist, or the
\* statement writes and the database file cannot be written (read-only
\* file, full disk)
CannotRead(d) == ~d.tables
CannotWrite(d) == ~d.tables \/ ~d.writable

\* the error the store throws on a statement it cannot run
StoreError(d) ==
    IF ~d.tables THEN "no such table"
    ELSE IF ~d.writable THEN "attempt to write a readonly database"
    ELSE "constraint failed"

RaiseWith(d, error) == [Outcome(d, TRUE, 1, <<>>, FALSE, 0) EXCEPT !.error = error]
Raise(d) == RaiseWith(d, StoreError(d))

\* PRAGMA foreign_keys: SQLite leaves it OFF and the code never turns it on
ForeignKeysOn == TRUE
ForeignKeys == FALSE

\* stable insertion of row into a sequence sorted descending on column col
RECURSIVE InsertDesc(_, _, _)
InsertDesc(row, sorted, col) ==
    IF sorted = <<>> THEN <<row>>
    ELSE IF Head(sorted)[col] >= row[col]
         THEN <<Head(sorted)>> \o InsertDesc(row, Tail(sorted), col)
         ELSE <<row>> \o sorted

\* ORDER BY col DESC over rows scanned in rowid order
RECURSIVE OrderByDesc(_, _)
OrderByDesc(rows, col) ==
    IF rows = <<>> THEN <<>>
    ELSE InsertDesc(rows[Len(rows)], OrderByDesc(SubSeq(rows, 1, Len(rows) - 1), col), col)

CategoryExists(d, id) == \E i \in 1..Len(d.categories) : d.categories[i].id = id
RecordExists(d, id) == \E i \in 1..Len(d.records) : d.records[i].id = id

\* the column constraints of CREATE_RECORDS_TABLE on a row to be written
RecordsTableRejectsChecked(d, row) ==
    \/ row.minutes <= 0
    \/ ForeignKeys /\ row.categoryId # NullId /\ ~CategoryExists(d, row.categoryId)
RecordsTableRejects(d, row) ==
    ForeignKeys /\ row.categoryId # NullId /\ ~CategoryExists(d, row.categoryId)

\* the FOREIGN KEY of records.categoryId as seen by a DELETE on categories
CategoryIsReferenced(d, id) ==
    \E i \in 1..Len(d.records) : d.records[i].categoryId = id

Max(a, b) == IF a >= b THEN a ELSE b

\* "SELECT * FROM categories ORDER BY createdAt DESC", and the statement
\* without its ORDER BY
SelectCategoriesUnordered(d) ==
    IF CannotRead(d) THEN Raise(d)
    ELSE Outcome(d, FALSE, 1, d.categories, FALSE, 0)
SelectCategories(d) ==
    IF CannotRead(d) THEN Raise(d)
    ELSE Outcome(d, FALSE, 1, OrderByDesc(d.categories, "createdAt"), FALSE, 0)

\* "INSERT INTO categories (name, colorHex, createdAt) VALUES (?, ?, ?)": the
\* id is one above the AUTOINCREMENT counter; and the variant of a key without
\* AUTOINCREMENT, one above the highest id in the table
InsertIntoCategoriesByRowid(d, name, colorHex, createdAt) ==
    IF CannotWrite(d) THEN Raise(d)
    ELSE LET highest == IF d.categories = <<>> THEN 0
                        ELSE d.categories[Len(d.categories)].id
             row == [id |-> highest + 1, name |-> name, colorHex |-> colorHex,
                     createdAt |-> createdAt]
         IN Outcome([d EXCEPT !.categories = Append(@, row),
                              !.seqCategories = Max(@, highest + 1)],
                    FALSE, 1, <<>>, FALSE, 1)
InsertIntoCategories(d, name, colorHex, createdAt) ==
    IF CannotWrite(d) THEN Raise(d)
    ELSE LET id == Max(d.seqCategories, 0) + 1
             row == [id |-> id, name |-> name, colorHex |-> colorHex,
                     createdAt |-> createdAt]
         IN Outcome([d EXCEPT !.categories = Append(@, row), !.seqCategories = id],
                    FALSE, 1, <<>>, FALSE, 1)

\* "UPDATE categories SET ... WHERE id = ?" with the SET list built from the
\* provided fields
UpdateCategoriesSet(d, id, name, colorHex) ==
    IF CannotWrite(d) THEN Raise(d)
    ELSE LET upd(row) == [row EXCEPT
                            !.name = IF name # Undefined THEN name[1] ELSE @,
                            !.colorHex = IF colorHex # Undefined THEN colorHex[1] ELSE @]
             rows == [i \in 1..Len(d.categories) |->
                        IF d.categories[i].id = id THEN upd(d.categories[i])
                        ELSE d.categories[i]]
         IN Outcome([d EXCEPT !.categories = rows], FALSE, 1, <<>>, FALSE,
                    IF CategoryExists(d, id) THEN 1 ELSE 0)

\* "DELETE FROM categories WHERE id = ?"
DeleteFromCategoriesSetNull(d, id) ==
    IF CannotWrite(d) THEN Raise(d)
    ELSE LET keep(row) == row.id # id
             rows == [i \in 1..Len(d.records) |->
                        IF d.records[i].categoryId = id
                        THEN [d.records[i] EXCEPT !.categoryId = NullId]
                        ELSE d.records[i]]
         IN Outcome([d EXCEPT !.categories = SelectSeq(@, keep), !.records = rows],
                    FALSE, 1, <<>>, FALSE, IF CategoryExists(d, id) THEN 1 ELSE 0)
DeleteFromCategories(d, id) ==
    IF CannotWrite(d) THEN Raise(d)
    ELSE IF ForeignKeys /\ CategoryExists(d, id) /\ CategoryIsReferenced(d, id)
    THEN Raise(d)
    ELSE LET keep(row) == row.id # id
         IN Outcome([d EXCEPT !.categories = SelectSeq(@, keep)], FALSE, 1, <<>>,
                    FALSE, IF CategoryExists(d, id) THEN 1 ELSE 0)

\* "INSERT INTO records (categoryId, description, minutes, timestamp) VALUES (?, ?, ?, ?)"
InsertIntoRecords(d, record) ==
    IF CannotWrite(d) THEN Raise(d)
    ELSE LET id == Max(d.seqRecords, 0) + 1
             row == [id |-> id, categoryId |-> record.categoryId,
                     description |-> record.description,
                     minutes |-> record.minutes, timestamp |-> record.timestamp]
         IN IF RecordsTableRejects(d, row) THEN Raise(d)
            ELSE Outcome([d EXCEPT !.records = Append(@, row), !.seqRecords = id],
                         FALSE, 1, <<>>, FALSE, 1)

\* the WHERE clause of getRecordsByDateRange
InRangeHalfOpen(row, startTimestamp, endTimestamp) ==
    row.timestamp >= startTimestamp /\ row.timestamp < endTimestamp
InRange(row, startTimestamp, endTimestamp) ==
    row.timestamp >= startTimestamp /\ row.timestamp <= endTimestamp

\* "SELECT * FROM records WHERE timestamp >= ? AND timestamp <= ? ORDER BY timestamp DESC"
SelectRecordsByRange(d, startTimestamp, endTimestamp) ==
    IF CannotRead(d) THEN Raise(d)
    ELSE LET hit(row) == InRange(row, startTimestamp, endTimestamp)
         IN Outcome(d, FALSE, 1, OrderByDesc(SelectSeq(d.records, hit), "timestamp"),
                    FALSE, 0)

\* "UPDATE records SET ... WHERE id = ?" with the SET list built from the
\* provided fields, and the variant that takes a null for an omitted field
UpdateRecordsSetNullOmitted(d, id, categoryId, description, minutes, timestamp) ==
    IF CannotWrite(d) THEN Raise(d)
    ELSE LET upd(row) == [row EXCEPT
                !.categoryId = IF categoryId # Undefined /\ categoryId[1] # NullId
                               THEN categoryId[1] ELSE @,
                !.description = IF description # Undefined /\ description[1] # NullText
                                THEN description[1] ELSE @,
                !.minutes = IF minutes # Undefined THEN minutes[1] ELSE @,
                !.timestamp = IF timestamp # Undefined THEN timestamp[1] ELSE @]
             rows == [i \in 1..Len(d.records) |->
                        IF d.records[i].id = id THEN upd(d.records[i])
                        ELSE d.records[i]]
         IN Outcome([d EXCEPT !.records = rows], FALSE, 1, <<>>, FALSE,
                    IF RecordExists(d, id) THEN 1 ELSE 0)
UpdateRecordsSet(d, id, categoryId, description, minutes, timestamp) ==
    IF CannotWrite(d) THEN Raise(d)
    ELSE LET upd(row) == [row EXCEPT
                !.categoryId = IF categoryId # Undefined THEN categoryId[1] ELSE @,
                !.description = IF description # Undefined THEN description[1] ELSE @,
                !.minutes = IF minutes # Undefined THEN minutes[1] ELSE @,
                !.timestamp = IF timestamp # Undefined THEN timestamp[1] ELSE @]
             rejected == \E i \in 1..Len(d.records) :
                            /\ d.records[i].id = id
                            /\ RecordsTableRejects(d, upd(d.records[i]))
             rows == [i \in 1..Len(d.records) |->
                        IF d.records[i].id = id THEN upd(d.records[i])
                        ELSE d.records[i]]
         IN IF rejected THEN Raise(d)
            ELSE Outcome([d EXCEPT !.records = rows], FALSE, 1, <<>>, FALSE,
                         IF RecordExists(d, id) THEN 1 ELSE 0)

\* "DELETE FROM records WHERE id = ?", and the variant that fails when no row
\* matches
DeleteFromRecordsOfExisting(d, id) ==
    IF CannotWrite(d) \/ ~RecordExists(d, id) THEN Raise(d)
    ELSE LET keep(row) == row.id # id
         IN Outcome([d EXCEPT !.records = SelectSeq(@, keep)], FALSE, 1, <<>>,
                    FALSE, 1)
DeleteFromRecords(d, id) ==
    IF CannotWrite(d) THEN Raise(d)
    ELSE LET keep(row) == row.id # id
         IN Outcome([d EXCEPT !.records = SelectSeq(@, keep)], FALSE, 1, <<>>,
                    FALSE, IF RecordExists(d, id) THEN 1 ELSE 0)

\* executeQuery: runs the statement; a failure is logged and thrown again;
\* and the variant whose catch block returns an empty result instead
executeQuerySwallowing(outcome) ==
    IF outcome.raised
    THEN [Logged(outcome, "SQL execution failed:") EXCEPT !.raised = FALSE, !.error = "none"]
    ELSE outcome
executeQuery(outcome) ==
    IF outcome.raised THEN Logged(outcome, "SQL execution failed:") ELSE outcome

-----------------------------------------------------------------------------
(* The data access functions *)

\* insertCategory(name, colorHex?) at Date.now() = t
insertCategory(d, name, colorHex, t) ==
    executeQuery(InsertIntoCategories(d, name,
        IF colorHex = Undefined \/ colorHex[1] = "" THEN NullText ELSE colorHex[1], t))

getCategories(d) == executeQuery(SelectCategories(d))

updateCategoryUnguarded(d, id, name, colorHex) ==
    executeQuery(UpdateCategoriesSet(d, id, name, colorHex))
updateCategory(d, id, name, colorHex) ==
    IF name = Undefined /\ colorHex = Undefined
    THEN Outcome(d, FALSE, 0, <<>>, TRUE, 0)
    ELSE executeQuery(UpdateCategoriesSet(d, id, name, colorHex))

deleteCategory(d, id) == executeQuery(DeleteFromCategories(d, id))

insertRecord(d, record) == executeQuery(InsertIntoRecords(d, record))

getRecordsByDateRange(d, startTimestamp, endTimestamp) ==
    executeQuery(SelectRecordsByRange(d, startTimestamp, endTimestamp))

updateRecord(d, id, categoryId, description, minutes, timestamp) ==
    IF /\ categoryId = Undefined /\ description = Undefined
       /\ minutes = Undefined /\ timestamp = Undefined
    THEN Outcome(d, FALSE, 0, <<>>, TRUE, 0)
    ELSE executeQuery(UpdateRecordsSet(d, id, categoryId, description, minutes, timestamp))

deleteRecord(d, id) == executeQuery(DeleteFromRecords(d, id))

\* fetchTodayRecords(date): the local day of date, first to last millisecond
fetchTodayRecordsToSecond(d, date) ==
    getRecordsByDateRange(d, setHours(date, 0, 0, 0, 0), setHours(date, 23, 59, 59, 0))
fetchTodayRecords(d, date) ==
    getRecordsByDateRange(d, setHours(date, 0, 0, 0, 0), setHours(date, 23, 59, 59, 999))

\* the three defaults of seedDefaultCategories
DefaultCategories ==
    << [name |-> "Work", colorHex |-> "#3b82f6"],
       [name |-> "Exercise", colorHex |-> "#10b981"],
       [name |-> "Others", colorHex |-> "#6b7280"] >>

\* the inserts of seedDefaultCategories from the k-th default on; the first
\* one that throws ends the try block
RECURSIVE SeedFrom(_, _, _, _)
SeedFrom(d, k, t, sql) ==
    IF k > Len(DefaultCategories)
    THEN Logged(Outcome(d, FALSE, sql, <<>>, FALSE, 0), "Default categories seeded")
    ELSE LET o == insertCategory(d, DefaultCategories[k].name,
                                 Some(DefaultCategories[k].colorHex), t)
         IN IF o.raised THEN [o EXCEPT !.sql = sql + 1]
            ELSE SeedFrom(o.db, k + 1, t, sql + 1)

\* the catch block of seedDefaultCategories: the failure is logged and the
\* function returns normally
SeedCatch(o) ==
    IF o.raised
    THEN [Logged(o, "Failed to seed default categories:")
            EXCEPT !.raised = FALSE, !.error = "none"]
    ELSE o

\* seedDefaultCategories: seeds when getCategories() is empty
seedAlways(d, t) == SeedCatch(SeedFrom(d, 1, t, 1))
seedDefaultCategories(d, t) ==
    LET existing == getCategories(d)
    IN SeedCatch(IF existing.raised THEN existing
                 ELSE IF Len(existing.rows) = 0 THEN SeedFrom(d, 1, t, 1)
                 ELSE Outcome(d, FALSE, 1, <<>>, FALSE, 0))

\* initializeDatabase: three CREATE TABLE IF NOT EXISTS, which write only if
\* the tables do not exist yet, then the seeding; its catch block logs the
\* failure and throws it again
initializeDatabase(d, t) ==
    IF ~d.tables /\ ~d.writable
    THEN Logged(RaiseWith(d, "attempt to write a readonly database"),
                "Database initialization failed:")
    ELSE LET created == [d EXCEPT !.tables = TRUE]
             seeded == seedDefaultCategories(created, t)
         IN IF seeded.raised
            THEN Logged([seeded EXCEPT !.sql = 3 + @], "Database initialization failed:")
            ELSE Logged([seeded EXCEPT !.sql = 3 + @, !.rows = <<>>],
                        "Database initialized successfully")

\* the same three functions while the database file stops being writable (the
\* disk fills up) after `writes` more inserts have gone through; every insert
\* is a statement of its own, none of them runs inside a transaction
RECURSIVE SeedFromWhile(_, _, _, _, _)
SeedFromWhile(d, k, t, sql, writes) ==
    IF k > Len(DefaultCategories)
    THEN Logged(Outcome(d, FALSE, sql, <<>>, FALSE, 0), "Default categories seeded")
    ELSE LET file == IF writes = 0 THEN [d EXCEPT !.writable = FALSE] ELSE d
             o == insertCategory(file, DefaultCategories[k].name,
                                 Some(DefaultCategories[k].colorHex), t)
         IN IF o.raised THEN [o EXCEPT !.sql = sql + 1]
            ELSE SeedFromWhile(o.db, k + 1, t, sql + 1, writes - 1)

seedDefaultCategoriesWhile(d, t, writes) ==
    LET existing == getCategories(d)
    IN SeedCatch(IF existing.raised THEN existing
                 ELSE IF Len(existing.rows) = 0 THEN SeedFromWhile(d, 1, t, 1, writes)
                 ELSE Outcome(d, FALSE, 1, <<>>, FALSE, 0))

initializeDatabaseWhile(d, t, writes) ==
    IF ~d.tables /\ ~d.writable
    THEN Logged(RaiseWith(d, "attempt to write a readonly database"),
                "Database initialization failed:")
    ELSE LET created == [d EXCEPT !.tables = TRUE]
             seeded == seedDefaultCategoriesWhile(created, t, writes)
         IN IF seeded.raised
            THEN Logged([seeded EXCEPT !.sql = 3 + @], "Database initialization failed:")
            ELSE Logged([seeded EXCEPT !.sql = 3 + @, !.rows = <<>>],
                        "Database initialized successfully")

-----------------------------------------------------------------------------
(* Text handling of the forms: String.prototype.trim and parseInt(s, 10) *)

Whitespace == {" "}
Digits == {"0", "1", "2", "3", "4", "5", "6", "7", "8", "9"}

DigitValue(c) ==
    CASE c = "0" -> 0 [] c = "1" -> 1 [] c = "2" -> 2 [] c = "3" -> 3
      [] c = "4" -> 4 [] c = "5" -> 5 [] c = "6" -> 6 [] c = "7" -> 7
      [] c = "8" -> 8 [] c = "9" -> 9

RECURSIVE trimStart(_)
trimStart(s) ==
    IF s # "" /\ Head(s) \in Whitespace THEN trimStart(Tail(s)) ELSE s

RECURSIVE trimEnd(_)
trimEnd(s) ==
    IF s # "" /\ SubSeq(s, Len(s), Len(s)) \in Whitespace
    THEN trimEnd(SubSeq(s, 1, Len(s) - 1))
    ELSE s

trim(s) == trimEnd(trimStart(s))

\* the number NaN, as the optional value that holds no integer
NaN == <<>>
isNaN(v) == v = NaN

\* the value of the decimal digits that s starts with, NaN if there is none;
\* acc is the value of the digits read so far
RECURSIVE ParseDigits(_, _)
ParseDigits(s, acc) ==
    IF s # "" /\ Head(s) \in Digits
    THEN ParseDigits(Tail(s),
             Some((IF isNaN(acc) THEN 0 ELSE acc[1]) * 10 + DigitValue(Head(s))))
    ELSE acc

\* parseInt(str, 10): leading white space is skipped, one sign is accepted,
\* the digits that follow are read and whatever comes after them is ignored
parseInt(str) ==
    LET s == trimStart(str)
        signed == s # "" /\ Head(s) \in {"+", "-"}
        v == ParseDigits(IF signed THEN Tail(s) ELSE s, NaN)
    IN IF isNaN(v) THEN NaN
       ELSE IF signed /\ Head(s) = "-" THEN Some(0 - v[1])
       ELSE v

\* Number.prototype.toString() of an integer: its decimal digits after the sign
DigitChar(d) ==
    CASE d = 0 -> "0" [] d = 1 -> "1" [] d = 2 -> "2" [] d = 3 -> "3"
      [] d = 4 -> "4" [] d = 5 -> "5" [] d = 6 -> "6" [] d = 7 -> "7"
      [] d = 8 -> "8" [] d = 9 -> "9"

RECURSIVE DigitsOf(_)
DigitsOf(n) ==
    IF n < 10 THEN DigitChar(n) ELSE DigitsOf(n \div 10) \o DigitChar(n % 10)

toString(n) == IF n < 0 THEN "-" \o DigitsOf(0 - n) ELSE DigitsOf(n)

\* Math.round(num / den) for den > 0: the nearest integer, a half rounds up
MathRound(num, den) == (2 * num + den) \div (2 * den)

-----------------------------------------------------------------------------
(* The React Query hooks *)

\* QUERY_KEYS
CATEGORIES == <<"categories">>
TODAY_RECORDS == <<"records", "today">>
WEEK_RECORDS(weekStart) == <<"records", "week", weekStart>>
WEEK_STATS(weekStart) == <<"stats", "week", weekStart>>

\* dayjs().startOf("isoWeek") of the weeks the Week and Statistics screens
\* show: the current week and the one navigateWeek("next") leads to
WeekStarts == {FirstTime, FirstTime + 7 * MsPerDay}

\* currentWeek.add(6, "day").endOf("day")
weekEnd(weekStart) == setHours(weekStart + 6 * MsPerDay, 23, 59, 59, 999)

QueryKeys ==
    {CATEGORIES, TODAY_RECORDS}
      \cup { WEEK_RECORDS(w) : w \in WeekStarts }
      \cup { WEEK_STATS(w) : w \in WeekStarts }

\* the queryFn of the query under key: useCategories, useTodayRecords,
\* useWeekRecords, useWeekStatistics; the data of the last one is the pair
\* of the week's records and the categories
queryFn(d, key, t) ==
    IF key = CATEGORIES THEN getCategories(d)
    ELSE IF key = TODAY_RECORDS THEN fetchTodayRecords(d, t)
    ELSE IF key[1] = "records"
    THEN getRecordsByDateRange(d, key[3], weekEnd(key[3]))
    ELSE LET records == getRecordsByDateRange(d, key[3], weekEnd(key[3]))
             categories == getCategories(d)
         IN IF records.raised THEN records
            ELSE IF categories.raised THEN categories
            ELSE Outcome(d, FALSE, 2, <<records.rows, categories.rows>>, FALSE, 0)

\* partial matching of a query key by the key of a filter
MatchesKey(filter, key) ==
    /\ Len(filter) <= Len(key)
    /\ \A i \in 1..Len(filter) : filter[i] = key[i]

\* queryClient.invalidateQueries({ queryKey: filter }) on cache c: every query
\* that is in the cache and matches is marked invalidated
invalidateQueries(c, filter) ==
    [key \in DOMAIN c |->
        IF c[key] # "absent" /\ MatchesKey(filter, key) THEN "invalidated"
        ELSE c[key]]

\* the variant of the on-success callback that leaves the statistics alone
useInsertRecordOnSuccessRecordsOnly(c) ==
    invalidateQueries(invalidateQueries(c, TODAY_RECORDS), <<"records", "week">>)

\* onSuccess of useInsertRecord, useUpdateRecord and useDeleteRecord
useInsertRecordOnSuccess(c) ==
    invalidateQueries(
        invalidateQueries(invalidateQueries(c, TODAY_RECORDS), <<"records", "week">>),
        <<"stats", "week">>)
useUpdateRecordOnSuccess(c) ==
    invalidateQueries(
        invalidateQueries(invalidateQueries(c, TODAY_RECORDS), <<"records", "week">>),
        <<"stats", "week">>)
useDeleteRecordOnSuccess(c) ==
    invalidateQueries(
        invalidateQueries(invalidateQueries(c, TODAY_RECORDS), <<"records", "week">>),
        <<"stats", "week">>)

\* a mutation in flight: the hook it belongs to, its variables (the id of an
\* update or a delete, the fields of an insert or an update) and the number
\* of times its mutationFn has failed
NoRecord == [categoryId |-> NullId, description |-> "", minutes |-> 0, timestamp |-> 0]
Mutation(hook, id, record) ==
    [hook |-> hook, id |-> id, record |-> record, failureCount |-> 0]

mutationFn(d, m) ==
    IF m.hook = "useInsertRecord" THEN insertRecord(d, m.record)
    ELSE IF m.hook = "useUpdateRecord"
    THEN updateRecord(d, m.id, Some(m.record.categoryId), Some(m.record.description),
                      Some(m.record.minutes), Some(m.record.timestamp))
    ELSE deleteRecord(d, m.id)

onSuccess(c, m) ==
    IF m.hook = "useInsertRecord" THEN useInsertRecordOnSuccess(c)
    ELSE IF m.hook = "useUpdateRecord" THEN useUpdateRecordOnSuccess(c)
    ELSE useDeleteRecordOnSuccess(c)

\* defaultOptions.mutations.retry of the query client
MutationRetry == 1

-----------------------------------------------------------------------------
(* State *)

\* what the last direct call of a data access function did: its name, up to
\* two of its arguments or counts (a, b) and its outcome
Ret(op, a, b, o) ==
    [op |-> op, a |-> a, b |-> b, raised |-> o.raised, sql |-> o.sql,
     rows |-> o.rows, isNull |-> o.isNull, log |-> o.log, error |-> o.error]

NoRet == [op |-> "none", a |-> 0, b |-> 0, raised |-> FALSE, sql |-> 0,
          rows |-> <<>>, isNull |-> FALSE, log |-> <<>>, error |-> "none"]

\* a screen handler and how it ended: "rejected" by its validation, or its
\* call of the store a "success", "retrying" after a failure, an "error"
Ui(handler, outcome) == [handler |-> handler, outcome |-> outcome]
NoUi == Ui("none", "none")

\* a screen that is not on display: its hooks hold nothing
NoTimeHook ==
    [phase |-> "unmounted", appStateRef |-> "active", intervalRef |-> 0,
     currentTime |-> 0, intervalMinutes |-> 3, timers |-> <<>>]
\* deps: the dependencies of the effect at its last run; calls and replaced:
\* how often the hook called setSelectedCategoryId and the selection it replaced
NoCategoryHook ==
    [phase |-> "unmounted", categories |-> <<>>, selectedCategoryId |-> NullId,
     hasSetDefault |-> FALSE, deps |-> <<>>, calls |-> 0, replaced |-> NullId]
NoForm ==
    [screen |-> "none", startTime |-> 0, finishTime |-> 0, minutes |-> "",
     editModalVisible |-> FALSE, editingRecord |-> Undefined, recordName |-> "",
     selectedCategoryId |-> NullId]
NoWeek ==
    [screen |-> "none", currentWeek |-> 0, initialWeek |-> 0, next |-> 0, prev |-> 0,
     data |-> Undefined]

\* the database file before the first start of the application
EmptyDb == [tables |-> FALSE, writable |-> TRUE, categories |-> <<>>, records |-> <<>>,
            seqCategories |-> 0, seqRecords |-> 0]

TzOffsets == {0, 330 * MsPerMinute}

StartTime == FirstDay * MsPerDay + 10 * MsPerHour

\* the application starts for the first time, in one of the time zones
InitAt(zones, times) ==
    /\ db = EmptyDb
    /\ tz \in zones
    /\ now \in times
    /\ ret = NoRet
    /\ cache = [k \in QueryKeys |-> "absent"]
    /\ pending = {}
    /\ ui = NoUi
    /\ mounted = FALSE
    /\ settings = <<>>
    /\ appState = "active"
    /\ timeHook = NoTimeHook
    /\ categoryHook = NoCategoryHook
    /\ form = NoForm
    /\ loaded = <<>>
    /\ week = NoWeek

InitIn(zones) == InitAt(zones, {StartTime})

Init == InitIn(TzOffsets)
InitUtc == InitIn({0})

-----------------------------------------------------------------------------
(* Direct calls of the data access functions *)

CategoryIds == 1..MaxCatId
RecordIds == 1..MaxRecId

\* the ids the modelled updates of a category name: a seeded row and the
\* highest id of the model
UpdatedCategoryIds == {1, MaxCatId}
CategoryNameUpdates == {Undefined, Some("Deep")}
CategoryColorUpdates == {Undefined, Some("#8b5cf6")}

\* records as the store-level scenarios write them: on the edges of the days,
\* with a duration of 0, with and without a category
TimedRecords ==
    [categoryId : {1}, description : {"Standup"},
     minutes : {30}, timestamp : BoundaryTimes]
MinuteRecords ==
    [categoryId : {1}, description : {"Standup"},
     minutes : {0, 30}, timestamp : {FirstTime}]
ReferencingRecords ==
    [categoryId : {NullId, 1}, description : {"Standup"},
     minutes : {30}, timestamp : {FirstTime}]

NoUpdate == {Undefined}
RecordCategoryUpdates == {Undefined, Some(NullId)}
RecordDescriptionUpdates == {Undefined, Some("")}
RecordMinutesUpdates == {Undefined, Some(0 - 15)}
RecordTimestampUpdates == {Undefined} \cup { Some(t) : t \in BoundaryTimes }

\* one call of a data access function: the store and the caller see its outcome
Store(o, op, a, b) ==
    /\ db' = o.db
    /\ ret' = Ret(op, a, b, o)
    /\ UNCHANGED <<now, tz, cache, pending, ui, mounted, settings, appState, timeHook, categoryHook, form, loaded, week>>

InitializeDatabase ==
    /\ db.seqCategories + Len(DefaultCategories) <= MaxCatId
    /\ Store(initializeDatabase(db, now), "initializeDatabase", 0, 0)

GetCategories == Store(getCategories(db), "getCategories", 0, 0)

UpdateCategoryCall(id, name, colorHex) ==
    LET o == updateCategory(db, id, name, colorHex)
    IN Store(o, "updateCategory", id, o.changes)

UpdateCategory ==
    \E id \in UpdatedCategoryIds, name \in CategoryNameUpdates,
       colorHex \in CategoryColorUpdates : UpdateCategoryCall(id, name, colorHex)

DeleteCategoryCall(id) ==
    LET o == deleteCategory(db, id)
    IN Store(o, "deleteCategory", id, o.changes)

DeleteCategory == \E id \in CategoryIds : DeleteCategoryCall(id)

InsertRecordCall(record) ==
    Store(insertRecord(db, record), "insertRecord", 0, 0)

InsertRecord(inputs) ==
    /\ db.seqRecords < MaxRecId
    /\ \E record \in inputs : InsertRecordCall(record)

GetRecordsByDateRange(starts, ends) ==
    \E s \in starts, e \in ends :
        Store(getRecordsByDateRange(db, s, e), "getRecordsByDateRange", s, e)

UpdateRecordCall(id, categoryId, description, minutes, timestamp) ==
    LET o == updateRecord(db, id, categoryId, description, minutes, timestamp)
    IN Store(o, "updateRecord", id, o.changes)

UpdateRecord(categoryIds, descriptions, minutes, timestamps) ==
    \E id \in RecordIds, c \in categoryIds, d \in descriptions,
       m \in minutes, t \in timestamps : UpdateRecordCall(id, c, d, m, t)

DeleteRecordCall(id) ==
    LET o == deleteRecord(db, id)
    IN Store(o, "deleteRecord", id, o.changes)

DeleteRecord == \E id \in RecordIds : DeleteRecordCall(id)

FetchTodayRecords ==
    \E date \in BoundaryTimes \cup {now} :
        Store(fetchTodayRecords(db, date), "fetchTodayRecords", date, 0)

\* the clock of Date.now() advances
Tick ==
    /\ now < StartTime + MaxTicks
    /\ now' = now + 1
    /\ UNCHANGED <<db, tz, ret, cache, pending, ui, mounted, settings, appState, timeHook, categoryHook, form, loaded, week>>

NewCategoryNames == {"Gym"}
NewCategoryColors == {Undefined}

InsertCategory ==
    /\ db.seqCategories < MaxCatId
    /\ \E name \in NewCategoryNames, colorHex \in NewCategoryColors :
          Store(insertCategory(db, name, colorHex, now), "insertCategory", 0, 0)

\* any sequence of inserts, updates and deletes of categories while the clock
\* advances, and of listings of the categories
NextCategories ==
    \/ InitializeDatabase
    \/ Tick
    \/ InsertCategory
    \/ UpdateCategory
    \/ DeleteCategory
    \/ GetCategories

SpecCategories == InitUtc /\ [][NextCategories]_vars

\* the ids the modelled partial updates of a record name: the first row and
\* an id that no row ever has
UpdatedRecordIds == {1, MaxRecId + 1}
UpdatableRecords ==
    [categoryId : {1}, description : {"Standup"},
     minutes : {30}, timestamp : {FirstTime}]
PartialCategoryIdUpdates == {Undefined, Some(NullId)}
PartialDescriptionUpdates == {Undefined, Some(NullText)}
PartialMinutesUpdates == {Undefined, Some(45)}
PartialTimestampUpdates == {Undefined, Some(LastTime)}

UpdateRecordOf(ids, categoryIds, descriptions, minutes, timestamps) ==
    \E id \in ids, c \in categoryIds, d \in descriptions,
       m \in minutes, t \in timestamps : UpdateRecordCall(id, c, d, m, t)

\* any sequence of updates of a category and of a record, each with any
\* subset of its fields
NextUpdates ==
    \/ InitializeDatabase
    \/ InsertRecord(UpdatableRecords)
    \/ UpdateCategory
    \/ UpdateRecordOf(UpdatedRecordIds, PartialCategoryIdUpdates,
                      PartialDescriptionUpdates, PartialMinutesUpdates,
                      PartialTimestampUpdates)

SpecUpdates == InitUtc /\ [][NextUpdates]_vars

\* any sequence of inserts and deletes of categories and of records
NextIds ==
    \/ InitializeDatabase
    \/ InsertCategory
    \/ DeleteCategory
    \/ InsertRecord(UpdatableRecords)
    \/ DeleteRecord

SpecIds == InitUtc /\ [][NextIds]_vars

\* the database file stops being writable, or becomes writable again
StoreFault ==
    /\ db' = [db EXCEPT !.writable = ~@]
    /\ UNCHANGED <<now, tz, ret, cache, pending, ui, mounted, settings, appState, timeHook, categoryHook, form, loaded, week>>

\* the data access functions that run one statement through executeQuery,
\* as the scenarios with store failures call them
DataAccessCall ==
    \/ InsertCategory
    \/ GetCategories
    \/ UpdateCategory
    \/ DeleteCategory
    \/ InsertRecord(UpdatableRecords)
    \/ GetRecordsByDateRange({FirstTime}, {LastTime})
    \/ UpdateRecordOf(UpdatedRecordIds, NoUpdate, NoUpdate, PartialMinutesUpdates, NoUpdate)
    \/ DeleteRecord

\* any sequence of calls on a store whose file may stop being writable
NextFaults ==
    \/ InitializeDatabase
    \/ StoreFault
    \/ InsertCategory
    \/ GetCategories
    \/ UpdateCategory
    \/ InsertRecord(UpdatableRecords)
    \/ GetRecordsByDateRange({FirstTime}, {LastTime})
    \/ UpdateRecordOf(UpdatedRecordIds, NoUpdate, NoUpdate, PartialMinutesUpdates, NoUpdate)
    \/ DeleteRecord

SpecFaults == InitUtc /\ [][NextFaults]_vars

\* application starts on a store whose file may stop being writable and whose
\* categories may all have been deleted
NextInit ==
    \/ InitializeDatabase
    \/ StoreFault
    \/ DeleteCategory
    \/ GetCategories

SpecInit == InitUtc /\ [][NextInit]_vars

\* initializeDatabase during which the file stops being writable
InitializeDatabaseInterrupted ==
    /\ db.seqCategories + Len(DefaultCategories) <= MaxCatId
    /\ \E writes \in 0..(Len(DefaultCategories) - 1) :
          Store(initializeDatabaseWhile(db, now, writes), "initializeDatabase", writes, 0)

\* application starts on a store whose file may stop being writable at any
\* moment, also between two statements of initializeDatabase
NextSeed ==
    \/ InitializeDatabase
    \/ InitializeDatabaseInterrupted
    \/ StoreFault
    \/ DeleteCategory
    \/ GetCategories

SpecSeed == InitUtc /\ [][NextSeed]_vars

\* any sequence of calls on categories and on the records that refer to them
NextStore ==
    \/ InitializeDatabase
    \/ GetCategories
    \/ UpdateCategory
    \/ DeleteCategory
    \/ GetRecordsByDateRange({FirstTime}, {LastTime})
    \/ InsertRecord(ReferencingRecords)
    \/ UpdateRecord(RecordCategoryUpdates, RecordDescriptionUpdates, NoUpdate, NoUpdate)
    \/ DeleteRecord

SpecStore == InitUtc /\ [][NextStore]_vars

\* any sequence of calls on records and of range queries
NextRecords ==
    \/ InitializeDatabase
    \/ InsertRecord(TimedRecords)
    \/ UpdateRecord(NoUpdate, NoUpdate, NoUpdate, RecordTimestampUpdates)
    \/ DeleteRecord
    \/ GetRecordsByDateRange(BoundaryTimes, BoundaryTimes)
    \/ FetchTodayRecords

SpecRecords == Init /\ [][NextRecords]_vars

\* any sequence of calls that write the minutes of records
NextMinutes ==
    \/ InitializeDatabase
    \/ InsertRecord(MinuteRecords)
    \/ UpdateRecord(NoUpdate, NoUpdate, RecordMinutesUpdates, NoUpdate)
    \/ DeleteRecord
    \/ GetRecordsByDateRange({FirstTime}, {LastTime})

SpecMinutes == InitUtc /\ [][NextMinutes]_vars

-----------------------------------------------------------------------------
(* The application: the root layout, the queries and the screen handlers *)

\* what the user can have in the forms
DurationInputs == {"", "abc", "0", "-5", " 30m"}
ValidDurationInputs == {" 30m"}
FormStartTimes == { LocalTime(FirstDay, 9 * MsPerHour + 30 * MsPerMinute + 15 * MsPerSecond) }
FormCategoryIds == {1}
RecordNames == {" Standup "}
SelectedDays == {Undefined, Some(LocalTime(FirstDay + MaxDays - 1, 0))}
CategoryNameInputs == {"  ", " Gym "}
PRESET_COLORS == {"#3b82f6"}

RecordKeys ==
    {TODAY_RECORDS} \cup { WEEK_RECORDS(w) : w \in WeekStarts }
      \cup { WEEK_STATS(w) : w \in WeekStarts }

\* the mount effect of RootLayout: initializeDatabase(), a failure is logged
RootLayoutEffect ==
    /\ ~mounted
    /\ db' = initializeDatabase(db, now).db
    /\ mounted' = TRUE
    /\ UNCHANGED <<now, tz, ret, cache, pending, ui, settings, appState, timeHook, categoryHook, form, loaded, week>>

\* a screen that shows one of the keys runs, or runs again, its query: the
\* data is fresh if the queryFn returns, the query stays as it was if it throws
Fetch(keys) ==
    \E key \in keys :
        /\ cache' = IF queryFn(db, key, now).raised THEN cache
                    ELSE [cache EXCEPT ![key] = "fresh"]
        /\ UNCHANGED <<db, now, tz, ret, pending, ui, mounted, settings, appState, timeHook, categoryHook, form, loaded, week>>

\* one run of the mutationFn of mutation m, started by handler: onSuccess
\* runs if it returns; if it throws the mutation is kept for its retry, and
\* is given up when the retries are used up
MutationAttempt(m, handler) ==
    LET o == mutationFn(db, m)
    IN /\ m.hook = "useInsertRecord" => db.seqRecords < MaxRecId
       /\ db' = o.db
       /\ IF ~o.raised
          THEN /\ cache' = onSuccess(cache, m)
               /\ pending' = pending \ {m}
               /\ ui' = Ui(handler, "success")
          ELSE IF m.failureCount < MutationRetry
          THEN /\ Cardinality(pending \ {m}) < MaxPending
               /\ pending' = (pending \ {m}) \cup {[m EXCEPT !.failureCount = @ + 1]}
               /\ ui' = Ui(handler, "retrying")
               /\ UNCHANGED cache
          ELSE /\ pending' = pending \ {m}
               /\ ui' = Ui(handler, "error")
               /\ UNCHANGED cache
       /\ UNCHANGED <<now, tz, ret, mounted, settings, appState, timeHook, loaded, week>>

\* the same for a handler that leaves the form of its screen as it is
Attempt(m, handler) ==
    /\ MutationAttempt(m, handler)
    /\ UNCHANGED <<categoryHook, form>>

\* the retry of a failed mutation comes due
RetryMutation == \E m \in pending : Attempt(m, "retry")

\* a handler returns before it reaches the store
Return(handler) ==
    /\ ui' = Ui(handler, "rejected")
    /\ UNCHANGED <<db, now, tz, ret, cache, pending, mounted, settings, appState, timeHook, categoryHook, form, loaded, week>>

\* the duration check of the save and update handlers, and the variant of it
\* that lets a duration of 0 pass
RejectsDurationBelowZero(mins) == isNaN(mins) \/ mins[1] < 0
RejectsDuration(mins) == isNaN(mins) \/ mins[1] <= 0

\* day.hour(startTime.getHours()).minute(startTime.getMinutes()).second(0).millisecond(0)
FormTimestamp(day, startTime) ==
    setHours(day, getHours(startTime), getMinutes(startTime), 0, 0)

FormRecord(selectedCategoryId, recordName, mins, ts) ==
    [categoryId |-> selectedCategoryId, description |-> trim(recordName),
     minutes |-> mins, timestamp |-> ts]

\* Today screen, the Save button of the add modal
TodaySaveWith(minutes, startTime, selectedCategoryId, recordName) ==
    LET mins == parseInt(minutes)
    IN IF RejectsDuration(mins) THEN Return("TodaySave")
       ELSE Attempt(Mutation("useInsertRecord", 0,
                FormRecord(selectedCategoryId, recordName, mins[1],
                           FormTimestamp(now, startTime))), "TodaySave")

TodaySave(durations) ==
    \E minutes \in durations, startTime \in FormStartTimes,
       selectedCategoryId \in FormCategoryIds, recordName \in RecordNames :
        TodaySaveWith(minutes, startTime, selectedCategoryId, recordName)

\* Today screen, handleUpdateRecord on the record that is being edited
TodayHandleUpdateRecordWith(editingRecord, minutes, startTime, selectedCategoryId, recordName) ==
    LET mins == parseInt(minutes)
    IN IF RejectsDuration(mins) THEN Return("TodayHandleUpdateRecord")
       ELSE Attempt(Mutation("useUpdateRecord", editingRecord.id,
                FormRecord(selectedCategoryId, recordName, mins[1],
                           FormTimestamp(now, startTime))), "TodayHandleUpdateRecord")

TodayHandleUpdateRecord(durations) ==
    \E i \in 1..Len(db.records), minutes \in durations, startTime \in FormStartTimes,
       selectedCategoryId \in FormCategoryIds, recordName \in RecordNames :
        TodayHandleUpdateRecordWith(db.records[i], minutes, startTime,
                                    selectedCategoryId, recordName)

\* Today screen, handleDeleteRecord on the record that is being edited
TodayHandleDeleteRecord ==
    \E i \in 1..Len(db.records) :
        Attempt(Mutation("useDeleteRecord", db.records[i].id, NoRecord),
                "TodayHandleDeleteRecord")

\* Week screen, handleSaveRecord for the day that was tapped, if any
WeekHandleSaveRecordWith(selectedDay, minutes, startTime, selectedCategoryId, recordName) ==
    LET mins == parseInt(minutes)
    IN IF selectedDay = Undefined THEN Return("WeekHandleSaveRecord")
       ELSE IF RejectsDuration(mins) THEN Return("WeekHandleSaveRecord")
       ELSE Attempt(Mutation("useInsertRecord", 0,
                FormRecord(selectedCategoryId, recordName, mins[1],
                           FormTimestamp(selectedDay[1], startTime))),
                "WeekHandleSaveRecord")

WeekHandleSaveRecord(durations) ==
    \E selectedDay \in SelectedDays, minutes \in durations,
       startTime \in FormStartTimes, selectedCategoryId \in FormCategoryIds,
       recordName \in RecordNames :
        WeekHandleSaveRecordWith(selectedDay, minutes, startTime,
                                 selectedCategoryId, recordName)

\* Week screen, handleUpdateRecord: the record keeps its day
WeekHandleUpdateRecordWith(editingRecord, minutes, startTime, selectedCategoryId, recordName) ==
    LET mins == parseInt(minutes)
    IN IF RejectsDuration(mins) THEN Return("WeekHandleUpdateRecord")
       ELSE Attempt(Mutation("useUpdateRecord", editingRecord.id,
                FormRecord(selectedCategoryId, recordName, mins[1],
                           FormTimestamp(editingRecord.timestamp, startTime))),
                "WeekHandleUpdateRecord")

WeekHandleUpdateRecord(durations) ==
    \E i \in 1..Len(db.records), minutes \in durations, startTime \in FormStartTimes,
       selectedCategoryId \in FormCategoryIds, recordName \in RecordNames :
        WeekHandleUpdateRecordWith(db.records[i], minutes, startTime,
                                   selectedCategoryId, recordName)

\* Week screen, handleDeleteRecord
WeekHandleDeleteRecord ==
    \E i \in 1..Len(db.records) :
        Attempt(Mutation("useDeleteRecord", db.records[i].id, NoRecord),
                "WeekHandleDeleteRecord")

\* the save and update forms of the two screens, on the given durations
SaveOrUpdateForm(durations) ==
    \/ TodaySave(durations)
    \/ TodayHandleUpdateRecord(durations)
    \/ WeekHandleSaveRecord(durations)
    \/ WeekHandleUpdateRecord(durations)

\* the save, update and delete forms of the Today and Week screens on a
\* fresh installation, next to the query of the Today screen
NextForms ==
    \/ RootLayoutEffect
    \/ Fetch({TODAY_RECORDS})
    \/ TodaySave(DurationInputs)
    \/ TodayHandleUpdateRecord(DurationInputs)
    \/ TodayHandleDeleteRecord
    \/ WeekHandleSaveRecord(DurationInputs)
    \/ WeekHandleUpdateRecord(DurationInputs)
    \/ WeekHandleDeleteRecord
    \/ RetryMutation

SpecForms == InitUtc /\ [][NextForms]_vars

\* the three mutation hooks, driven by the Today screen, next to the queries
\* of today and of two weeks
HookMutation ==
    \/ TodaySave(ValidDurationInputs)
    \/ TodayHandleUpdateRecord(ValidDurationInputs)
    \/ TodayHandleDeleteRecord
    \/ RetryMutation

NextMutations ==
    \/ RootLayoutEffect
    \/ Fetch(RecordKeys)
    \/ TodaySave(ValidDurationInputs)
    \/ TodayHandleUpdateRecord(ValidDurationInputs)
    \/ TodayHandleDeleteRecord
    \/ RetryMutation

SpecMutations == InitUtc /\ [][NextMutations]_vars

\* Settings screen, loadCategories: the list is replaced unless the call throws
loadCategories(list, d) ==
    LET o == getCategories(d)
    IN IF o.raised THEN list ELSE o.rows

\* Settings screen, the mount effect
SettingsEffect ==
    /\ settings' = loadCategories(settings, db)
    /\ UNCHANGED <<db, now, tz, ret, cache, pending, ui, mounted, appState, timeHook, categoryHook, form, loaded, week>>

\* Settings screen, the body of a handler: one call of a data access function
\* with outcome o, then loadCategories(); a failure is logged
SettingsCall(o, handler) ==
    /\ db' = o.db
    /\ settings' = IF o.raised THEN settings ELSE loadCategories(settings, o.db)
    /\ ui' = Ui(handler, IF o.raised THEN "error" ELSE "success")
    /\ UNCHANGED <<now, tz, ret, cache, pending, mounted, appState, timeHook, categoryHook, form, loaded, week>>

\* handleAddCategory, and the variant that checks the name before trimming it
handleAddCategoryWithUntrimmedCheck(categoryName, selectedColor) ==
    IF categoryName = "" THEN Return("handleAddCategory")
    ELSE /\ db.seqCategories < MaxCatId
         /\ SettingsCall(insertCategory(db, trim(categoryName), Some(selectedColor), now),
                         "handleAddCategory")
handleAddCategoryWith(categoryName, selectedColor) ==
    IF trim(categoryName) = "" THEN Return("handleAddCategory")
    ELSE /\ db.seqCategories < MaxCatId
         /\ SettingsCall(insertCategory(db, trim(categoryName), Some(selectedColor), now),
                         "handleAddCategory")

handleAddCategory ==
    \E categoryName \in CategoryNameInputs, selectedColor \in PRESET_COLORS :
        handleAddCategoryWith(categoryName, selectedColor)

handleUpdateCategoryWith(editingCategory, categoryName, selectedColor) ==
    IF editingCategory = Undefined \/ trim(categoryName) = ""
    THEN Return("handleUpdateCategory")
    ELSE SettingsCall(updateCategory(db, editingCategory[1].id, Some(trim(categoryName)),
                                     Some(selectedColor)),
                      "handleUpdateCategory")

handleUpdateCategory ==
    \E editingCategory \in {Undefined} \cup
            { Some(settings[i]) :
                i \in { j \in 1..Len(settings) : settings[j].id \in UpdatedCategoryIds } },
       categoryName \in CategoryNameInputs, selectedColor \in PRESET_COLORS :
        handleUpdateCategoryWith(editingCategory, categoryName, selectedColor)

\* the Delete button of a listed category and the answer to its alert
handleDeleteCategoryWith(category, confirmed) ==
    IF ~confirmed THEN Return("handleDeleteCategory")
    ELSE SettingsCall(deleteCategory(db, category.id), "handleDeleteCategory")

handleDeleteCategory ==
    \E i \in 1..Len(settings), confirmed \in BOOLEAN :
        handleDeleteCategoryWith(settings[i], confirmed)

\* the mutations of categories that the Settings screen performs
CategoryMutation ==
    \/ handleAddCategory
    \/ handleUpdateCategory
    \/ handleDeleteCategory

\* the mutations of records that the Today and Week screens perform
RecordMutation ==
    \/ SaveOrUpdateForm(DurationInputs)
    \/ TodayHandleDeleteRecord
    \/ WeekHandleDeleteRecord
    \/ RetryMutation

\* the Settings screen next to the screens that show the categories
NextSettings ==
    \/ RootLayoutEffect
    \/ Fetch({CATEGORIES, WEEK_STATS(FirstTime)})
    \/ SettingsEffect
    \/ handleAddCategory
    \/ handleUpdateCategory
    \/ handleDeleteCategory
    \/ TodaySave({" 30m"})
    \/ RetryMutation

SpecSettings == InitUtc /\ [][NextSettings]_vars

\* insertCategory called with a name the Settings screen would not pass on
UnnamedCategoryNames == {"", "  "}

InsertUnnamedCategory ==
    /\ db.seqCategories < MaxCatId
    /\ \E name \in UnnamedCategoryNames :
          Store(insertCategory(db, name, Undefined, now), "insertCategory", 0, 0)

\* the Settings screen next to direct calls of insertCategory
NextNames ==
    \/ RootLayoutEffect
    \/ SettingsEffect
    \/ handleAddCategory
    \/ handleUpdateCategory
    \/ handleDeleteCategory
    \/ InsertUnnamedCategory

SpecNames == InitUtc /\ [][NextNames]_vars

-----------------------------------------------------------------------------
(* useCurrentTime: the "now" of a screen, refreshed by an interval timer *)

AppStates == {"active", "background", "inactive"}
\* the intervals the screens ask for: useCurrentTime(3), useCurrentTime(5)
IntervalMinutes == {3, 5}

\* clearInterval(id): the timer with that id, if it is still scheduled, is gone
clearInterval(timers, id) ==
    LET kept(timer) == timer.id # id IN SelectSeq(timers, kept)

\* setInterval(callback, interval) at time t: a timer with an id no scheduled
\* timer has
setInterval(timers, interval, t) ==
    LET used == { timers[i].id : i \in 1..Len(timers) }
        id == CHOOSE i \in 1..(Len(timers) + 1) : i \notin used
    IN Append(timers, [id |-> id, interval |-> interval, since |-> t])

updateCurrentTime(h, t) == [h EXCEPT !.currentTime = t]

\* startTimer at time t, and the variant that does not look at the app state
startTimerInAnyState(h, t) ==
    LET cleared == IF h.intervalRef # 0 THEN clearInterval(h.timers, h.intervalRef)
                   ELSE h.timers
        started == setInterval(cleared, h.intervalMinutes * 60 * 1000, t)
    IN [h EXCEPT !.timers = started, !.intervalRef = started[Len(started)].id]
startTimer(h, t) ==
    LET cleared == IF h.intervalRef # 0 THEN clearInterval(h.timers, h.intervalRef)
                   ELSE h.timers
        started == setInterval(cleared, h.intervalMinutes * 60 * 1000, t)
    IN IF h.appStateRef = "active"
       THEN [h EXCEPT !.timers = started, !.intervalRef = started[Len(started)].id]
       ELSE [h EXCEPT !.timers = cleared]

\* stopTimer, and the variant that forgets the interval without clearing it
stopTimerWithoutClear(h) ==
    IF h.intervalRef # 0
    THEN [h EXCEPT !.intervalRef = 0]
    ELSE h
stopTimer(h) ==
    IF h.intervalRef # 0
    THEN [h EXCEPT !.timers = clearInterval(@, h.intervalRef), !.intervalRef = 0]
    ELSE h

\* the handler of the AppState "change" event
onAppStateChange(h, nextAppState, t) ==
    LET observed == [h EXCEPT !.appStateRef = nextAppState]
    IN IF nextAppState = "active" THEN startTimer(updateCurrentTime(observed, t), t)
       ELSE stopTimer(observed)

TimeHookStep(h) ==
    /\ timeHook' = h
    /\ UNCHANGED <<db, now, tz, ret, cache, pending, ui, mounted, settings,
                   appState, categoryHook, form, loaded, week>>

\* the first render of a screen: useState(() => dayjs()), the refs
TimeHookRender ==
    /\ timeHook.phase = "unmounted"
    /\ \E intervalMinutes \in IntervalMinutes :
          TimeHookStep([NoTimeHook EXCEPT !.phase = "rendered",
                                          !.currentTime = now,
                                          !.appStateRef = appState,
                                          !.intervalMinutes = intervalMinutes])

\* the effects after the first render: subscribe to AppState, startTimer()
TimeHookEffect ==
    /\ timeHook.phase = "rendered"
    /\ TimeHookStep(startTimer([timeHook EXCEPT !.phase = "subscribed"], now))

\* the app moves to another state; a subscribed hook is told
AppStateChange ==
    \E nextAppState \in AppStates \ {appState} :
        /\ appState' = nextAppState
        /\ timeHook' = IF timeHook.phase = "subscribed"
                       THEN onAppStateChange(timeHook, nextAppState, now)
                       ELSE timeHook
        /\ UNCHANGED <<db, now, tz, ret, cache, pending, ui, mounted, settings,
                       categoryHook, form, loaded, week>>

\* the screen asks for another interval: the effect is cleaned up
\* (subscription.remove(), stopTimer()) and runs again (startTimer())
IntervalChange ==
    /\ timeHook.phase = "subscribed"
    /\ \E intervalMinutes \in IntervalMinutes \ {timeHook.intervalMinutes} :
          TimeHookStep(startTimer(
              [stopTimer(timeHook) EXCEPT !.intervalMinutes = intervalMinutes], now))

\* a scheduled timer fires: updateCurrentTime()
TimerFires ==
    /\ timeHook.timers # <<>>
    /\ TimeHookStep(updateCurrentTime(timeHook, now))

\* the screen is unmounted: the cleanups of the effects that ran
TimeHookUnmount ==
    /\ timeHook.phase # "unmounted"
    /\ TimeHookStep([(IF timeHook.phase = "subscribed" THEN stopTimer(timeHook)
                      ELSE timeHook) EXCEPT !.phase = "unmounted"])

\* a screen with useCurrentTime while the app changes state and time passes
NextTime ==
    \/ Tick
    \/ TimeHookRender
    \/ TimeHookEffect
    \/ AppStateChange
    \/ IntervalChange
    \/ TimerFires
    \/ TimeHookUnmount

SpecTime == InitUtc /\ [][NextTime]_vars

-----------------------------------------------------------------------------
(* useDefaultCategory: the category an empty form starts with *)

\* the body of the effect, and the variant without the hasSetDefault ref
useDefaultCategoryEffectEveryTime(h) ==
    IF Len(h.categories) > 0 /\ h.selectedCategoryId = NullId
    THEN [h EXCEPT !.selectedCategoryId = h.categories[1].id,
                   !.hasSetDefault = TRUE,
                   !.calls = @ + 1,
                   !.replaced = h.selectedCategoryId]
    ELSE h
useDefaultCategoryEffect(h) ==
    IF Len(h.categories) > 0 /\ h.selectedCategoryId = NullId /\ ~h.hasSetDefault
    THEN [h EXCEPT !.selectedCategoryId = h.categories[1].id,
                   !.hasSetDefault = TRUE,
                   !.calls = @ + 1,
                   !.replaced = h.selectedCategoryId]
    ELSE h

\* the dependencies of the effect: [categories.length > 0, selectedCategoryId === null]
useDefaultCategoryDeps(h) == <<Len(h.categories) > 0, h.selectedCategoryId = NullId>>

\* one render of the screen: the effect runs if its dependencies changed
useDefaultCategory(h) ==
    IF useDefaultCategoryDeps(h) = h.deps THEN h
    ELSE useDefaultCategoryEffect([h EXCEPT !.deps = useDefaultCategoryDeps(h)])

\* the renders that follow a change of the screen's state, until the effect
\* changes nothing any more
RECURSIVE RenderScreen(_)
RenderScreen(h) ==
    LET rendered == useDefaultCategory(h)
    IN IF rendered = h THEN h ELSE RenderScreen(rendered)

CategoryHookStep(h) ==
    /\ categoryHook' = RenderScreen(h)
    /\ UNCHANGED <<db, now, tz, ret, cache, pending, ui, mounted, settings,
                   appState, timeHook, form, loaded, week>>

\* the list useCategories() hands to the screen: [] until the query has data
LoadedCategories == IF getCategories(db).raised THEN <<>> ELSE getCategories(db).rows

\* the screen is mounted: useState(null), useRef(false), the query has no data
\* yet or has the list of an earlier mount
CategoryHookMount ==
    /\ categoryHook.phase = "unmounted"
    /\ \E categories \in {<<>>, LoadedCategories} :
          CategoryHookStep([NoCategoryHook EXCEPT !.phase = "mounted",
                                                  !.categories = categories])

\* the categories query delivers the list of the store
CategoriesLoad ==
    /\ categoryHook.phase = "mounted"
    /\ ~getCategories(db).raised
    /\ categoryHook.categories # getCategories(db).rows
    /\ CategoryHookStep([categoryHook EXCEPT !.categories = getCategories(db).rows])

\* the user picks a category in the category picker
SelectCategory ==
    /\ categoryHook.phase = "mounted"
    /\ \E i \in 1..Len(categoryHook.categories) :
          /\ categoryHook.selectedCategoryId # categoryHook.categories[i].id
          /\ CategoryHookStep([categoryHook EXCEPT
                                  !.selectedCategoryId = categoryHook.categories[i].id])

\* resetModalForm, resetEditForm
resetModalForm(h) ==
    [h EXCEPT !.selectedCategoryId =
                 IF Len(h.categories) > 0 THEN h.categories[1].id ELSE NullId]

ResetModalForm ==
    /\ categoryHook.phase = "mounted"
    /\ resetModalForm(categoryHook) # categoryHook
    /\ CategoryHookStep(resetModalForm(categoryHook))

\* handleEditRecord(record): the form takes the category of the record, which is
\* null for a record saved while no category was selected
EditedCategoryIds == {NullId, 1}

HandleEditRecord ==
    /\ categoryHook.phase = "mounted"
    /\ \E categoryId \in EditedCategoryIds \ {categoryHook.selectedCategoryId} :
          CategoryHookStep([categoryHook EXCEPT !.selectedCategoryId = categoryId])

CategoryHookUnmount ==
    /\ categoryHook.phase = "mounted"
    /\ categoryHook' = NoCategoryHook
    /\ UNCHANGED <<db, now, tz, ret, cache, pending, ui, mounted, settings,
                   appState, timeHook, form, loaded, week>>

\* a screen with useDefaultCategory while categories are seeded and deleted
NextDefault ==
    \/ InitializeDatabase
    \/ DeleteCategory
    \/ CategoryHookMount
    \/ CategoriesLoad
    \/ SelectCategory
    \/ ResetModalForm
    \/ HandleEditRecord
    \/ CategoryHookUnmount

SpecDefault == InitUtc /\ [][NextDefault]_vars

-----------------------------------------------------------------------------
(* The record form of the Today and Week screens *)

\* calculateMinutes of useTimeCalculation, and the variant without Math.max
calculateMinutesUnclamped(startTime, finishTime) ==
    toString(MathRound(finishTime - startTime, 1000 * 60))
calculateMinutes(startTime, finishTime) ==
    toString(Max(1, MathRound(finishTime - startTime, 1000 * 60)))

\* the effects that follow a render with new times: useTimeCalculation and, in
\* the Today screen with the edit modal open, the effect that computes the same
useTimeCalculation(f) ==
    [f EXCEPT !.minutes = calculateMinutes(f.startTime, f.finishTime)]

FormStep(f) ==
    /\ form' = useTimeCalculation(f)
    /\ UNCHANGED <<db, now, tz, ret, cache, pending, ui, mounted, settings,
                   appState, timeHook, categoryHook, loaded, week>>

\* the screen is mounted: useState(new Date()), useState(now + one hour)
FormMount ==
    /\ form.screen = "none"
    /\ \E screen \in {"today", "week"} :
          FormStep([NoForm EXCEPT !.screen = screen,
                                  !.startTime = now,
                                  !.finishTime = now + 60 * 60 * 1000])

\* the times the user picks: before, at and after the start of the form, half
\* a minute and a minute and a half apart
PickedTimes ==
    { StartTime + d : d \in {0 - MsPerHour, 0 - 30 * MsPerSecond, 0, 29999,
                              30 * MsPerSecond, 90 * MsPerSecond, MsPerHour} }

PickStartTime ==
    /\ form.screen # "none"
    /\ \E d \in PickedTimes \ {form.startTime} :
          FormStep([form EXCEPT !.startTime = d])

PickFinishTime ==
    /\ form.screen # "none"
    /\ \E d \in PickedTimes \ {form.finishTime} :
          FormStep([form EXCEPT !.finishTime = d])

\* resetModalForm, resetEditForm
resetForm(f, t) ==
    [f EXCEPT !.editingRecord = Undefined, !.recordName = "", !.minutes = "",
              !.startTime = t, !.finishTime = t + 60 * 60 * 1000,
              !.editModalVisible = FALSE]

FormReset ==
    /\ form.screen # "none"
    /\ FormStep(resetForm(form, now))

FormUnmount ==
    /\ form.screen # "none"
    /\ form' = NoForm
    /\ UNCHANGED <<db, now, tz, ret, cache, pending, ui, mounted, settings,
                   appState, timeHook, categoryHook, loaded, week>>

\* a record form whose times are picked again and again
NextDuration ==
    \/ Tick
    \/ FormMount
    \/ PickStartTime
    \/ PickFinishTime
    \/ FormReset
    \/ FormUnmount

SpecDuration == InitUtc /\ [][NextDuration]_vars

-----------------------------------------------------------------------------
(* The timeline of the Today screen: resizing and moving a record *)

AdjustActions == {"extend", "shrink", "move-earlier", "move-later"}

\* the variables adjustRecordTime hands to updateRecordMutation.mutate for a
\* record of the loaded list, and the variant whose "shrink" has no minimum
adjustedRecordUnclamped(record, action) ==
    [categoryId |-> NullId,
     description |-> record.description,
     minutes |-> IF action = "extend" THEN record.minutes + 15
                 ELSE IF action = "shrink" THEN record.minutes - 15
                 ELSE record.minutes,
     timestamp |-> IF action = "move-earlier" THEN record.timestamp - 15 * MsPerMinute
                   ELSE IF action = "move-later" THEN record.timestamp + 15 * MsPerMinute
                   ELSE record.timestamp]
adjustedRecord(record, action) ==
    [categoryId |-> NullId,
     description |-> record.description,
     minutes |-> IF action = "extend" THEN record.minutes + 15
                 ELSE IF action = "shrink" THEN Max(15, record.minutes - 15)
                 ELSE record.minutes,
     timestamp |-> IF action = "move-earlier" THEN record.timestamp - 15 * MsPerMinute
                   ELSE IF action = "move-later" THEN record.timestamp + 15 * MsPerMinute
                   ELSE record.timestamp]

\* records.find((r) => r.id === recordId): the first match, if any
FindRecord(records, recordId) ==
    LET found == { i \in 1..Len(records) : records[i].id = recordId }
    IN IF found = {} THEN Undefined
       ELSE Some(records[CHOOSE i \in found : \A j \in found : i <= j])

adjustRecordTimeWith(recordId, action) ==
    LET record == FindRecord(loaded, recordId)
    IN IF record = Undefined THEN Return("adjustRecordTime")
       ELSE Attempt(Mutation("useUpdateRecord", recordId,
                             adjustedRecord(record[1], action)), "adjustRecordTime")

\* the records on the timeline: one shorter than a quarter of an hour
AdjustableRecords ==
    [categoryId : {1}, description : {"Standup"},
     minutes : {10, 30}, timestamp : {FirstTime + MsPerHour}]

\* how far the modelled records are resized and moved
WithinShift(record) ==
    /\ record.minutes <= 30 + MaxShift * 15
    /\ record.timestamp >= FirstTime + MsPerHour - MaxShift * 15 * MsPerMinute
    /\ record.timestamp <= FirstTime + MsPerHour + MaxShift * 15 * MsPerMinute

AdjustRecordTime ==
    \E recordId \in UpdatedRecordIds, action \in AdjustActions :
        /\ FindRecord(loaded, recordId) # Undefined =>
              WithinShift(adjustedRecord(FindRecord(loaded, recordId)[1], action))
        /\ adjustRecordTimeWith(recordId, action)

\* useTodayRecords delivers the records of today as the store holds them
TodayRecordsLoad ==
    /\ ~fetchTodayRecords(db, now).raised
    /\ loaded # fetchTodayRecords(db, now).rows
    /\ loaded' = fetchTodayRecords(db, now).rows
    /\ UNCHANGED <<db, now, tz, ret, cache, pending, ui, mounted, settings,
                   appState, timeHook, categoryHook, form, week>>

\* the Today timeline over a store with records, reloaded now and then
NextAdjust ==
    \/ RootLayoutEffect
    \/ InsertRecord(AdjustableRecords)
    \/ TodayRecordsLoad
    \/ AdjustRecordTime

SpecAdjust == InitUtc /\ [][NextAdjust]_vars

-----------------------------------------------------------------------------
(* The week of the Week and Statistics screens *)

\* dayjs().isoWeekday(): 1 for Monday .. 7 for Sunday; the first day of the
\* epoch is a Thursday
isoWeekday(t) == (((t + tz) \div MsPerDay + 3) % 7) + 1

\* startOf("isoWeek"), and the variant that takes Sunday for the first day
startOfWeek(t) ==
    setHours(t - (isoWeekday(t) % 7) * MsPerDay, 0, 0, 0, 0)
startOfIsoWeek(t) ==
    setHours(t - (isoWeekday(t) - 1) * MsPerDay, 0, 0, 0, 0)

\* prev.subtract(1, "week"), prev.add(1, "week") in a zone without daylight
\* saving time
navigateWeek(w, direction) ==
    IF direction = "prev"
    THEN [w EXCEPT !.currentWeek = @ - 7 * MsPerDay, !.prev = @ + 1]
    ELSE [w EXCEPT !.currentWeek = @ + 7 * MsPerDay, !.next = @ + 1]

WeekStep(w) ==
    /\ week' = w
    /\ UNCHANGED <<db, now, tz, ret, cache, pending, ui, mounted, settings,
                   appState, timeHook, categoryHook, form, loaded>>

\* the screen is mounted: useState(dayjs().startOf("isoWeek"))
WeekMount ==
    /\ week.screen = "none"
    /\ \E screen \in {"week", "statistics"} :
          WeekStep([NoWeek EXCEPT !.screen = screen,
                                  !.currentWeek = startOfIsoWeek(now),
                                  !.initialWeek = startOfIsoWeek(now)])

NavigateWeek ==
    /\ week.screen # "none"
    /\ week.next + week.prev < MaxPresses
    /\ \E direction \in {"prev", "next"} :
          /\ direction = "next" => week.currentWeek <= FirstTime
          /\ WeekStep(navigateWeek(week, direction))

WeekUnmount ==
    /\ week.screen # "none"
    /\ WeekStep(NoWeek)

\* the moments at which the screens are opened: every day of a week, at
\* midnight, in the morning and a minute before midnight UTC
WeekdayTimes ==
    { StartTime + d * MsPerDay + x :
        d \in 0..6, x \in {0 - 10 * MsPerHour, 0, 14 * MsPerHour - MsPerMinute} }

InitWeek == InitAt(TzOffsets, WeekdayTimes)

NextWeek ==
    \/ WeekMount
    \/ NavigateWeek
    \/ WeekUnmount

SpecWeek == InitWeek /\ [][NextWeek]_vars

-----------------------------------------------------------------------------
(* The weekly statistics *)

\* reduce((sum, row) => sum + row[col], 0)
RECURSIVE SumOf(_, _)
SumOf(rows, col) ==
    IF rows = <<>> THEN 0 ELSE Head(rows)[col] + SumOf(Tail(rows), col)

\* the key of the group a record is put into
GroupKey(record) ==
    IF record.categoryId # NullId THEN toString(record.categoryId) ELSE "uncategorized"

GroupOf(records, key) ==
    LET inGroup(record) == GroupKey(record) = key IN SelectSeq(records, inGroup)

CategoryStat(category, categoryRecords, totalMinutes) ==
    [category |-> category,
     totalMinutes |-> SumOf(categoryRecords, "minutes"),
     recordCount |-> Len(categoryRecords),
     percentage |-> IF totalMinutes > 0
                    THEN MathRound(SumOf(categoryRecords, "minutes") * 100, totalMinutes)
                    ELSE 0]

Uncategorized ==
    [id |-> 0 - 1, name |-> "Uncategorized", colorHex |-> "#9ca3af", createdAt |-> 0]

\* the useMemo of StatisticsScreen over the data of useWeekStatistics: one
\* entry for every category, one for the records without category if there are
\* any, sorted by total minutes
categoryStats(records, categories) ==
    LET totalMinutes == SumOf(records, "minutes")
        real == [i \in 1..Len(categories) |->
                    CategoryStat(categories[i],
                                 GroupOf(records, toString(categories[i].id)),
                                 totalMinutes)]
        uncategorizedRecords == GroupOf(records, "uncategorized")
        stats == IF Len(uncategorizedRecords) > 0
                 THEN Append(real, CategoryStat(Uncategorized, uncategorizedRecords,
                                                totalMinutes))
                 ELSE real
    IN [categoryStats |-> OrderByDesc(stats, "totalMinutes"),
        totalWeekMinutes |-> totalMinutes]

\* useWeekStatistics delivers the records of the shown week and the categories
StatisticsLoad ==
    /\ week.screen = "statistics"
    /\ LET o == queryFn(db, WEEK_STATS(week.currentWeek), now)
       IN /\ ~o.raised
          /\ week.data # Some(o.rows)
          /\ WeekStep([week EXCEPT !.data = Some(o.rows)])

\* the Statistics screen over a store whose categories are deleted while
\* records refer to them
NextStatistics ==
    \/ RootLayoutEffect
    \/ InsertRecord(ReferencingRecords)
    \/ DeleteCategory
    \/ WeekMount
    \/ StatisticsLoad
    \/ WeekUnmount

SpecStatistics == InitUtc /\ [][NextStatistics]_vars

-----------------------------------------------------------------------------
(* The edit modal of the Today and Week screens *)

\* handleEditRecord: the form takes the values of the record
handleEditRecord(f, record) ==
    [f EXCEPT !.editingRecord = Some(record),
              !.recordName = record.description,
              !.startTime = record.timestamp,
              !.finishTime = record.timestamp + record.minutes * MsPerMinute,
              !.minutes = toString(record.minutes),
              !.editModalVisible = TRUE]

\* the variables handleUpdateRecord hands to updateRecordMutation.mutate: the
\* Today screen puts the start time on the current day, the Week screen on the
\* day of the record
updatedRecord(f, selectedCategoryId, t) ==
    FormRecord(selectedCategoryId, f.recordName, parseInt(f.minutes)[1],
               FormTimestamp(IF f.screen = "today" THEN t
                             ELSE f.editingRecord[1].timestamp, f.startTime))

\* setSelectedCategoryId(categories.length > 0 ? categories[0].id : null)
resetSelectedCategory(h) ==
    [h EXCEPT !.selectedCategoryId =
                 IF Len(h.categories) > 0 THEN h.categories[1].id ELSE NullId]

\* the screen with its form and its useDefaultCategory is mounted
EditScreenMount ==
    /\ form.screen = "none"
    /\ categoryHook.phase = "unmounted"
    /\ \E screen \in {"today", "week"} :
          form' = useTimeCalculation([NoForm EXCEPT !.screen = screen,
                                                    !.startTime = now,
                                                    !.finishTime = now + 60 * 60 * 1000])
    /\ categoryHook' = RenderScreen([NoCategoryHook EXCEPT !.phase = "mounted"])
    /\ UNCHANGED <<db, now, tz, ret, cache, pending, ui, mounted, settings,
                   appState, timeHook, loaded, week>>

\* useTodayRecords or useWeekRecords delivers the records of the store
ScreenRecords ==
    IF form.screen = "today" THEN fetchTodayRecords(db, now)
    ELSE queryFn(db, WEEK_RECORDS(startOfIsoWeek(now)), now)

RecordsLoad ==
    /\ form.screen # "none"
    /\ ~ScreenRecords.raised
    /\ loaded # ScreenRecords.rows
    /\ loaded' = ScreenRecords.rows
    /\ UNCHANGED <<db, now, tz, ret, cache, pending, ui, mounted, settings,
                   appState, timeHook, categoryHook, form, week>>

\* a record of the list is tapped
EditRecord ==
    /\ form.screen # "none"
    /\ ~form.editModalVisible
    /\ \E i \in 1..Len(loaded) :
          /\ form' = useTimeCalculation(handleEditRecord(form, loaded[i]))
          /\ categoryHook' =
                RenderScreen([categoryHook EXCEPT
                                !.selectedCategoryId = loaded[i].categoryId])
    /\ UNCHANGED <<db, now, tz, ret, cache, pending, ui, mounted, settings,
                   appState, timeHook, loaded, week>>

\* the Update button of the edit modal: handleUpdateRecord, then resetEditForm
UpdateEditedRecord ==
    /\ form.editModalVisible
    /\ IF RejectsDuration(parseInt(form.minutes))
       THEN Return("handleUpdateRecord")
       ELSE /\ MutationAttempt(
                   Mutation("useUpdateRecord", form.editingRecord[1].id,
                            updatedRecord(form, categoryHook.selectedCategoryId, now)),
                   "handleUpdateRecord")
            /\ form' = useTimeCalculation(resetForm(form, now))
            /\ categoryHook' = RenderScreen(resetSelectedCategory(categoryHook))

\* the next day begins
DayPasses ==
    /\ now < StartTime + (MaxDays - 1) * MsPerDay
    /\ now' = now + MsPerDay
    /\ UNCHANGED <<db, tz, ret, cache, pending, ui, mounted, settings, appState,
                   timeHook, categoryHook, form, loaded, week>>

\* the records on the list: with and without a category, on a full minute
\* and 15 seconds after it
EditableRecords ==
    [categoryId : {NullId, 1}, description : {"Standup"}, minutes : {30},
     timestamp : { FirstTime + 9 * MsPerHour + 30 * MsPerMinute + x :
                     x \in {0, 15 * MsPerSecond} }]

\* records are opened in the edit modal and written back as they are shown
NextEdit ==
    \/ RootLayoutEffect
    \/ InsertRecord(EditableRecords)
    \/ EditScreenMount
    \/ CategoriesLoad
    \/ RecordsLoad
    \/ EditRecord
    \/ UpdateEditedRecord
    \/ DayPasses

SpecEdit == InitUtc /\ [][NextEdit]_vars

-----------------------------------------------------------------------------
(* The timeline: where the block of a record is drawn *)

HOUR_HEIGHT == 60
MINUTE_HEIGHT == HOUR_HEIGHT \div 60
TIMELINE_HEIGHT == 24 * HOUR_HEIGHT

getRecordPosition(timestamp, minutes) ==
    [top |-> (getHours(timestamp) * 60 + getMinutes(timestamp)) * MINUTE_HEIGHT,
     height |-> minutes * MINUTE_HEIGHT]

-----------------------------------------------------------------------------
(* Application start *)

\* the queries a screen runs when it is mounted: useCategories,
\* useTodayRecords, useWeekRecords; the caller sees the outcome of the queryFn
StartQueryKeys == {CATEGORIES, TODAY_RECORDS, WEEK_RECORDS(FirstTime)}

RunQuery ==
    \E key \in StartQueryKeys : Store(queryFn(db, key, now), "queryFn", 0, 0)

\* the first moments of the application: the mount effect of RootLayout and
\* the queries and mutations of the screens it renders, on a database file
\* that may not be writable
NextStart ==
    \/ RootLayoutEffect
    \/ StoreFault
    \/ RunQuery
    \/ TodaySave(ValidDurationInputs)
    \/ RetryMutation

SpecStart == InitUtc /\ [][NextStart]_vars

-----------------------------------------------------------------------------
(* Properties of the data access functions *)

\* the local calendar day of an epoch millisecond
LocalDay(t) == (t + tz) \div MsPerDay

\* rows holds exactly the stored Records that satisfy Wanted, each once, the
\* latest timestamp first
ExactlyDescending(rows, Wanted(_)) ==
    /\ \A i \in 1..Len(rows) :
          /\ Wanted(rows[i])
          /\ \E j \in 1..Len(db.records) : db.records[j] = rows[i]
    /\ \A j \in 1..Len(db.records) :
          Wanted(db.records[j]) =>
              Cardinality({ i \in 1..Len(rows) : rows[i] = db.records[j] }) = 1
    /\ \A i \in 1..Len(rows), j \in 1..Len(rows) :
          i < j => rows[i].timestamp >= rows[j].timestamp

\* C1: after any sequence of insertRecord / updateRecord / deleteRecord calls,
\* getRecordsByDateRange(start, end) returns exactly the stored Records with
\* start <= timestamp <= end, each once, ordered by timestamp descending.
RangeQueryExact ==
    (ret.op = "getRecordsByDateRange" /\ ~ret.raised) =>
        LET Wanted(row) == ret.a <= row.timestamp /\ row.timestamp <= ret.b
        IN ExactlyDescending(ret.rows, Wanted)

\* a range query that returned two Records, one on each of its bounds, the
\* Record that was inserted first holding the later timestamp
RangeQueryOnBothBounds ==
    /\ ret.op = "getRecordsByDateRange"
    /\ Len(ret.rows) = 2
    /\ ret.rows[1].timestamp = ret.b
    /\ ret.rows[2].timestamp = ret.a
    /\ ret.a < ret.b
    /\ ret.rows[1].id < ret.rows[2].id

\* C2: updateCategory(id) and updateRecord(id) with every optional field
\* undefined issue no SQL statement, return null and leave every Category and
\* Record row unchanged, for any id, existing or not.
UpdateWithoutFieldsIsNoOp ==
    [][ ( \/ \E id \in CategoryIds : UpdateCategoryCall(id, Undefined, Undefined)
          \/ \E id \in RecordIds :
                UpdateRecordCall(id, Undefined, Undefined, Undefined, Undefined) )
        => /\ ret'.isNull
           /\ ret'.sql = 0
           /\ ~ret'.raised
           /\ db' = db ]_vars

\* updateCategory returned null for the id of a stored Category while Records
\* are stored too
UpdateWithoutFieldsOnStoredRow ==
    /\ ret.op = "updateCategory"
    /\ ret.isNull
    /\ CategoryExists(db, ret.a)
    /\ Len(db.records) > 0

\* C3: on a store whose tables exist, deleteCategory(id) never raises, also
\* when stored Records have categoryId = id, and afterwards no Category row
\* has that id.
DeleteCategoryNeverRaises ==
    (ret.op = "deleteCategory" /\ db.tables) =>
        /\ ~ret.raised
        /\ ~CategoryExists(db, ret.a)

\* deleteCategory removed a Category that a stored Record refers to
DeletedReferencedCategory ==
    /\ ret.op = "deleteCategory"
    /\ ret.b = 1
    /\ CategoryIsReferenced(db, ret.a)

\* C4: deleteCategory(id) leaves every Record row unchanged: none is deleted
\* and no categoryId is nulled or rewritten, so range queries answer as before.
DeleteCategoryKeepsRecords ==
    [][ (\E id \in CategoryIds : DeleteCategoryCall(id))
        => /\ db'.records = db.records
           /\ getRecordsByDateRange(db', FirstTime, LastTime).rows
                 = getRecordsByDateRange(db, FirstTime, LastTime).rows ]_vars

\* a range query returned a Record whose categoryId is the id of a Category
\* that was deleted
RangeQueryReturnsDanglingCategoryId ==
    /\ ret.op = "getRecordsByDateRange"
    /\ \E i \in 1..Len(ret.rows) :
          /\ ret.rows[i].categoryId # NullId
          /\ ret.rows[i].categoryId <= db.seqCategories
          /\ ~CategoryExists(db, ret.rows[i].categoryId)

\* the rows seedDefaultCategories adds to an empty categories table
SeededOn(d, t) ==
    << [id |-> d.seqCategories + 1, name |-> "Work", colorHex |-> "#3b82f6",
        createdAt |-> t],
       [id |-> d.seqCategories + 2, name |-> "Exercise", colorHex |-> "#10b981",
        createdAt |-> t],
       [id |-> d.seqCategories + 3, name |-> "Others", colorHex |-> "#6b7280",
        createdAt |-> t] >>

\* C5 as stated: the first call on an empty store creates the tables and seeds
\* exactly the three defaults; any further call, and any call made while a
\* Category row exists, leaves the Category and Record rows unchanged.
InitializeIdempotentOnEveryFurtherCall ==
    [][ InitializeDatabase =>
          /\ (~db.tables => /\ db'.tables
                            /\ db'.categories = SeededOn(db, now)
                            /\ db'.records = db.records)
          /\ ((db.tables \/ Len(db.categories) > 0) =>
                  /\ db'.categories = db.categories
                  /\ db'.records = db.records) ]_vars

\* C5 amended: a call on a store without Category rows creates the tables and
\* seeds exactly the three defaults; a call that directly follows another call,
\* and any call made while a Category row exists, changes nothing.
InitializeIdempotentInSequence ==
    [][ InitializeDatabase =>
          /\ db'.tables
          /\ db'.records = db.records
          /\ db'.seqRecords = db.seqRecords
          /\ (Len(db.categories) = 0 => db'.categories = SeededOn(db, now))
          /\ (Len(db.categories) > 0 => db' = db)
          /\ (ret.op = "initializeDatabase" => db' = db) ]_vars

\* initializeDatabase ran on a store that held Category rows and only read them
InitializedAgainWithoutSeeding ==
    /\ ret.op = "initializeDatabase"
    /\ ret.sql = 4
    /\ Len(db.categories) >= 1
    /\ Len(db.records) >= 1

\* C6: fetchTodayRecords(date) returns exactly the stored Records whose
\* timestamp lies in the local calendar day of date (00:00:00.000 up to
\* 23:59:59.999), latest first; a Record is returned for its own day only.
FetchTodayExact ==
    (ret.op = "fetchTodayRecords" /\ ~ret.raised) =>
        LET Wanted(row) == LocalDay(row.timestamp) = LocalDay(ret.a)
        IN ExactlyDescending(ret.rows, Wanted)

\* away from UTC, fetchTodayRecords returned the Record of the last millisecond
\* of the day and left out the Record of the next millisecond
FetchTodaySplitsAtMidnight ==
    /\ ret.op = "fetchTodayRecords"
    /\ tz # 0
    /\ Len(ret.rows) = 1
    /\ Len(db.records) = 2
    /\ \E j \in 1..2 : db.records[j].timestamp = ret.rows[1].timestamp + 1

\* C8: the store enforces no positivity of minutes: insertRecord and
\* updateRecord called with minutes <= 0 succeed and store that value.
StoreAcceptsNonPositiveMinutes ==
    [][ /\ \A record \in MinuteRecords :
             (db.tables /\ record.minutes <= 0 /\ InsertRecordCall(record)) =>
                 /\ ~ret'.raised
                 /\ Len(db'.records) = Len(db.records) + 1
                 /\ db'.records[Len(db'.records)].minutes = record.minutes
        /\ \A id \in RecordIds, m \in RecordMinutesUpdates :
             ( /\ RecordExists(db, id) /\ m # Undefined /\ m[1] <= 0
               /\ UpdateRecordCall(id, Undefined, Undefined, m, Undefined) ) =>
                 /\ ~ret'.raised
                 /\ \E i \in 1..Len(db'.records) :
                       db'.records[i].id = id /\ db'.records[i].minutes = m[1]
       ]_vars

\* a range query returned a stored Record whose minutes are not positive
RangeQueryReturnsNonPositiveMinutes ==
    /\ ret.op = "getRecordsByDateRange"
    /\ \E i \in 1..Len(ret.rows) : ret.rows[i].minutes <= 0
    /\ \E i \in 1..Len(ret.rows) : ret.rows[i].minutes < 0

-----------------------------------------------------------------------------
(* Properties of the screens and of the query cache *)

\* the durations of the forms that parseInt does not turn into an integer
\* greater than 0
NonPositiveDurations ==
    { s \in DurationInputs : LET v == parseInt(s) IN v = NaN \/ v[1] <= 0 }

\* C7: in the Today and Week screens a save or update handler whose duration
\* string does not parse to an integer greater than 0 returns before it
\* reaches the mutation: the store, the cache and the mutations in flight are
\* unchanged, and no Record with minutes <= 0 is ever written through a form.
FormsRejectNonPositiveDurations ==
    /\ [](\A i \in 1..Len(db.records) : db.records[i].minutes > 0)
    /\ [][SaveOrUpdateForm(NonPositiveDurations) =>
              db' = db /\ cache' = cache /\ pending' = pending]_vars

\* the update form of the Week screen turned a duration down while Records
\* saved through the forms are stored
UpdateFormRejectedDuration ==
    /\ ui = Ui("WeekHandleUpdateRecord", "rejected")
    /\ Len(db.records) > 0
    /\ \A i \in 1..Len(db.records) : db.records[i].minutes = 30

\* C9: when a mutation of useInsertRecord, useUpdateRecord or useDeleteRecord
\* succeeds, the today-records query and every cached week-records and
\* week-statistics query, of every week start, is invalidated; when it fails
\* the cache is left exactly as it was.
RecordMutationsInvalidateOnSuccessOnly ==
    [][HookMutation =>
          IF ui'.outcome = "success"
          THEN \A key \in QueryKeys :
                  cache'[key] = IF key \in RecordKeys /\ cache[key] # "absent"
                                THEN "invalidated" ELSE cache[key]
          ELSE cache' = cache /\ db' = db]_vars

\* a mutation succeeded while the queries of today and of both weeks were
\* cached, and all of them are invalidated
MutationInvalidatedBothWeeks ==
    /\ ui.outcome = "success"
    /\ Len(db.records) > 0
    /\ \A key \in RecordKeys : cache[key] = "invalidated"

\* C10: every mutation a screen performs on the store, of a Record or of a
\* Category, invalidates the cached queries whose data it changes: after the
\* mutation no query whose data differs from the store is still fresh.
EveryMutationInvalidatesChangedQueries ==
    [][(CategoryMutation \/ RecordMutation) =>
          \A key \in QueryKeys :
              ( /\ cache[key] = "fresh"
                /\ queryFn(db', key, now).rows # queryFn(db, key, now).rows )
                  => cache'[key] # "fresh"]_vars

-----------------------------------------------------------------------------
(* Further properties of the data access functions *)

\* C11: after any sequence of category inserts, updates and deletes,
\* getCategories() returns every stored Category exactly once, ordered by
\* createdAt descending.
GetCategoriesCompleteDescending ==
    (ret.op = "getCategories" /\ ~ret.raised) =>
        /\ Len(ret.rows) = Len(db.categories)
        /\ \A i \in 1..Len(db.categories) :
              Cardinality({ j \in 1..Len(ret.rows) : ret.rows[j] = db.categories[i] }) = 1
        /\ \A j \in 1..(Len(ret.rows) - 1) :
              ret.rows[j].createdAt >= ret.rows[j + 1].createdAt

\* getCategories listed a Category that was inserted later, and renamed,
\* ahead of the seeded ones, after one of the seeded ones was deleted
GetCategoriesListsNewestFirst ==
    /\ ret.op = "getCategories"
    /\ Len(ret.rows) >= 3
    /\ Len(ret.rows) < db.seqCategories
    /\ ret.rows[1].id > ret.rows[2].id
    /\ ret.rows[1].createdAt > ret.rows[2].createdAt
    /\ ret.rows[1].name = "Deep"

\* the value of a field after an update that was given the optional value v
Updated(v, stored) == IF v = Undefined THEN stored ELSE v[1]

\* C12: updateCategory and updateRecord with at least one field provided
\* change only the provided fields of the single row whose id matches: a field
\* passed as undefined keeps its stored value, every other row is unchanged,
\* an id that matches no row changes nothing, and a field passed as null
\* (categoryId, description) is written as null.
PartialUpdateChangesProvidedFieldsOnly ==
    [][ /\ \A id \in UpdatedCategoryIds, name \in CategoryNameUpdates,
              colorHex \in CategoryColorUpdates :
             ( /\ name # Undefined \/ colorHex # Undefined
               /\ UpdateCategoryCall(id, name, colorHex) ) =>
                 /\ [db' EXCEPT !.categories = db.categories] = db
                 /\ Len(db'.categories) = Len(db.categories)
                 /\ \A i \in 1..Len(db.categories) :
                       db'.categories[i] =
                          IF db.categories[i].id # id THEN db.categories[i]
                          ELSE [db.categories[i] EXCEPT
                                  !.name = Updated(name, @),
                                  !.colorHex = Updated(colorHex, @)]
        /\ \A id \in UpdatedRecordIds, c \in PartialCategoryIdUpdates,
              d \in PartialDescriptionUpdates, m \in PartialMinutesUpdates,
              t \in PartialTimestampUpdates :
             ( /\ c # Undefined \/ d # Undefined \/ m # Undefined \/ t # Undefined
               /\ UpdateRecordCall(id, c, d, m, t) ) =>
                 /\ [db' EXCEPT !.records = db.records] = db
                 /\ Len(db'.records) = Len(db.records)
                 /\ \A i \in 1..Len(db.records) :
                       db'.records[i] =
                          IF db.records[i].id # id THEN db.records[i]
                          ELSE [db.records[i] EXCEPT
                                  !.categoryId = Updated(c, @),
                                  !.description = Updated(d, @),
                                  !.minutes = Updated(m, @),
                                  !.timestamp = Updated(t, @)]
      ]_vars

\* an update wrote null into the categoryId and the description of the first
\* of two Records and kept its minutes and timestamp
UpdateWroteNullsAndKeptTheRest ==
    /\ ret.op = "updateRecord"
    /\ ret.a = 1
    /\ ~ret.raised
    /\ Len(db.records) = 2
    /\ db.records[1] = [id |-> 1, categoryId |-> NullId, description |-> NullText,
                        minutes |-> 30, timestamp |-> FirstTime]
    /\ db.records[2].categoryId = 1

\* C13: deleteRecord(id) is unconditional: afterwards no stored Record has
\* that id, every other Record and every Category is unchanged, and for an id
\* that no Record has, a second delete of the same id included, it changes
\* nothing and does not raise (on a store whose tables exist).
DeleteRecordUnconditional ==
    [][ \A id \in RecordIds :
          (db.tables /\ DeleteRecordCall(id)) =>
              /\ ~ret'.raised
              /\ ~RecordExists(db', id)
              /\ LET other(row) == row.id # id
                 IN db'.records = SelectSeq(db.records, other)
              /\ [db' EXCEPT !.records = db.records] = db
              /\ ~RecordExists(db, id) => db' = db
      ]_vars

\* a Record was deleted a second time while another Record is stored
DeletedRecordTwice ==
    /\ ret.op = "deleteRecord"
    /\ ~ret.raised
    /\ ret.b = 0
    /\ ret.a <= db.seqRecords
    /\ ~RecordExists(db, ret.a)
    /\ Len(db.records) = 1

IdsOf(rows) == { rows[i].id : i \in 1..Len(rows) }

\* C14: in every reachable store state no two Categories and no two Records
\* share an id; the id of a newly inserted row is assigned by the store,
\* differs from the id of every existing row and is never the id of a row of
\* the same table that was deleted before: every id in use is at most the
\* AUTOINCREMENT counter of its table, the counter never goes down, and every
\* new id is above the counter as it was before the insert.
IdsUniqueAndNeverReused ==
    /\ [](/\ Cardinality(IdsOf(db.categories)) = Len(db.categories)
          /\ Cardinality(IdsOf(db.records)) = Len(db.records)
          /\ \A id \in IdsOf(db.categories) : id >= 1 /\ id <= db.seqCategories
          /\ \A id \in IdsOf(db.records) : id >= 1 /\ id <= db.seqRecords)
    /\ [][/\ db'.seqCategories >= db.seqCategories
          /\ db'.seqRecords >= db.seqRecords
          /\ \A id \in IdsOf(db'.categories) \ IdsOf(db.categories) :
                id > db.seqCategories
          /\ \A id \in IdsOf(db'.records) \ IdsOf(db.records) :
                id > db.seqRecords]_vars

\* a Record was inserted after the only stored Record, the one with the
\* highest id so far, had been deleted, and one Category above the seeded ids
\* is left after deletes
InsertedAfterDeletingHighestIds ==
    /\ Len(db.categories) = 1
    /\ db.categories[1].id > Len(DefaultCategories) + 1
    /\ Len(db.records) = 1
    /\ db.records[1].id = MaxRecId
    /\ ret.op = "insertRecord"

\* the data access functions whose statement only reads
ReadingFunctions == {"getCategories", "getRecordsByDateRange"}

\* C15: when the store raises on a statement, the data access function that
\* issued it through executeQuery throws the same error to its caller after
\* logging it once: the failure is not swallowed or turned into a return
\* value, the statement is not run again, and the stored rows are as before.
\* A statement the store can run returns normally and logs nothing.
StoreFailureRethrown ==
    [][(DataAccessCall /\ ~ret'.isNull) =>
          IF \/ ~db.tables
             \/ ~db.writable /\ ret'.op \notin ReadingFunctions
          THEN /\ ret'.raised
               /\ ret'.error = IF ~db.tables THEN "no such table"
                               ELSE "attempt to write a readonly database"
               /\ ret'.log = <<"SQL execution failed:">>
               /\ ret'.sql = 1
               /\ db' = db
          ELSE /\ ~ret'.raised
               /\ ret'.error = "none"
               /\ ret'.log = <<>>
      ]_vars

\* insertRecord threw the error of a store that holds a Record and cannot be
\* written
InsertRecordThrewStoreError ==
    /\ ret.op = "insertRecord"
    /\ ret.raised
    /\ ret.error = "attempt to write a readonly database"
    /\ ~db.writable
    /\ Len(db.records) = 1

\* C17: a failure during table creation or during seeding of the default
\* categories surfaces to the caller of initializeDatabase: when the store
\* cannot create the missing tables, or cannot insert the defaults into the
\* empty categories table, initializeDatabase throws and does not log
\* "Database initialized successfully".
InitializeFailureSurfaces ==
    [][(/\ InitializeDatabase
        /\ ~db.writable
        /\ ~db.tables \/ Len(db.categories) = 0) =>
          /\ ret'.raised
          /\ \A i \in 1..Len(ret'.log) :
                ret'.log[i] # "Database initialized successfully"
      ]_vars


-----------------------------------------------------------------------------
(* Further properties of the hooks *)

\* C18: useCurrentTime is paused while the application is backgrounded: in
\* every reachable state a refresh interval is scheduled only if the last app
\* state the hook observed is "active"; and when the app state changes to
\* "active" the hook refreshes its "now" at once and restarts the periodic
\* timer.
CurrentTimePausedUnlessActive ==
    /\ [](timeHook.timers # <<>> => timeHook.appStateRef = "active")
    /\ [][(/\ AppStateChange
           /\ timeHook.phase = "subscribed"
           /\ appState' = "active") =>
             /\ timeHook'.appStateRef = "active"
             /\ timeHook'.currentTime = now
             /\ Len(timeHook'.timers) = 1
             /\ timeHook'.timers[1].since = now
             /\ timeHook'.timers[1].interval = timeHook.intervalMinutes * 60 * 1000
             /\ timeHook'.intervalRef = timeHook'.timers[1].id]_vars

\* a subscribed hook saw the app leave the "active" state after time had
\* passed: no timer is scheduled and its "now" is behind the clock
CurrentTimePausedInBackground ==
    /\ timeHook.phase = "subscribed"
    /\ appState = "background"
    /\ timeHook.appStateRef = "background"
    /\ timeHook.timers = <<>>
    /\ timeHook.intervalRef = 0
    /\ timeHook.currentTime < now

\* C19: useDefaultCategory calls setSelectedCategoryId at most once while the
\* screen is mounted; the call happens only in a render with a non-empty list,
\* no selection and hasSetDefault unset, selects the id of the first category
\* of the list, and never replaces a selection that was not null.
DefaultCategorySelectedOnce ==
    /\ [](/\ categoryHook.calls <= 1
          /\ categoryHook.calls = 1 => categoryHook.hasSetDefault
          /\ categoryHook.replaced = NullId)
    /\ [][categoryHook'.calls > categoryHook.calls =>
            /\ ~categoryHook.hasSetDefault
            /\ categoryHook'.categories # <<>>
            /\ categoryHook'.selectedCategoryId = categoryHook'.categories[1].id
            /\ categoryHook'.selectedCategoryId # NullId]_vars
    /\ [][(/\ categoryHook.phase = "mounted"
           /\ categoryHook.selectedCategoryId # NullId
           /\ (CategoriesLoad \/ InitializeDatabase \/ DeleteCategory)) =>
             categoryHook'.selectedCategoryId = categoryHook.selectedCategoryId]_vars

\* the hook selected a default, the form later lost its selection while
\* categories were listed, and the hook did not select again
DefaultCategoryNotSelectedAgain ==
    /\ categoryHook.phase = "mounted"
    /\ categoryHook.calls = 1
    /\ categoryHook.categories # <<>>
    /\ categoryHook.selectedCategoryId = NullId

\* C20: handleAddCategory and handleUpdateCategory leave the store alone when
\* the entered name is empty after trimming, and otherwise write the trimmed,
\* non-empty name; insertCategory itself stores whatever name it is given.
WhitespaceNames == { name \in CategoryNameInputs : trim(name) = "" }

WrittenCategories ==
    { db'.categories[i] : i \in 1..Len(db'.categories) }
        \ { db.categories[i] : i \in 1..Len(db.categories) }

SettingsStoresTrimmedNames ==
    /\ [][handleAddCategory \/ handleUpdateCategory =>
            \A category \in WrittenCategories :
                /\ category.name # ""
                /\ category.name \in { trim(name) : name \in CategoryNameInputs }]_vars
    /\ [][(\E name \in WhitespaceNames, color \in PRESET_COLORS :
              \/ handleAddCategoryWith(name, color)
              \/ \E i \in 1..Len(settings) :
                    handleUpdateCategoryWith(Some(settings[i]), name, color)) =>
             /\ db' = db
             /\ ui'.outcome = "rejected"]_vars
    /\ [][\A name \in CategoryNameInputs \ WhitespaceNames, color \in PRESET_COLORS :
            handleAddCategoryWith(name, color) /\ ui'.outcome = "success" =>
              /\ Len(db'.categories) = Len(db.categories) + 1
              /\ db'.categories[Len(db'.categories)].name = trim(name)
              /\ trim(name) # name]_vars
    /\ [][InsertUnnamedCategory /\ db.tables /\ db.writable =>
             /\ ~ret'.raised
             /\ Len(db'.categories) = Len(db.categories) + 1
             /\ db'.categories[Len(db'.categories)].name \in UnnamedCategoryNames]_vars

\* a category entered as " Gym " in Settings is stored as "Gym" next to a
\* category that a direct insertCategory stored without a name
SettingsStoredTrimmedName ==
    /\ ui = Ui("handleAddCategory", "success")
    /\ \E i \in 1..Len(db.categories) : db.categories[i].name = "Gym"
    /\ \E i \in 1..Len(db.categories) : db.categories[i].name = ""

\* C21: the duration a mounted form shows is the decimal string of
\* max(1, round((finishTime - startTime) / 60000)), an integer of at least 1
\* that passes the minutes > 0 check of the handlers, also when the finish time
\* is not after the start time.
ComputedDurationAtLeastOne ==
    form.screen # "none" =>
        LET mins == parseInt(form.minutes)
            diff == form.finishTime - form.startTime
        IN /\ ~isNaN(mins)
           /\ ~RejectsDuration(mins)
           /\ mins[1] >= 1
           /\ toString(mins[1]) = form.minutes
           /\ IF diff < 90 * MsPerSecond THEN mins[1] = 1
              ELSE /\ mins[1] * MsPerMinute - 30 * MsPerSecond <= diff
                   /\ diff < mins[1] * MsPerMinute + 30 * MsPerSecond

\* a form whose finish time is an hour before its start time shows "1"
DurationOfEarlierFinish ==
    /\ form.screen = "today"
    /\ form.finishTime = form.startTime - MsPerHour
    /\ form.minutes = "1"

\* C22: adjustRecordTime on a record of the loaded list issues an update with
\* minutes + 15 for "extend", max(15, minutes - 15) for "shrink", both with the
\* timestamp as loaded, and with the timestamp 15 minutes earlier or later and
\* the minutes as loaded for "move-earlier" and "move-later"; the stored record
\* takes these values; for an id that is not in the loaded list nothing is issued.
StoredRecord(d, id) == FindRecord(d.records, id)

AdjustRecordTimeByQuarterHours ==
    /\ [][\A recordId \in UpdatedRecordIds, action \in AdjustActions :
            (/\ adjustRecordTimeWith(recordId, action)
             /\ FindRecord(loaded, recordId) # Undefined
             /\ StoredRecord(db, recordId) # Undefined) =>
              LET record == FindRecord(loaded, recordId)[1]
                  stored == StoredRecord(db', recordId)[1]
              IN /\ ui' = Ui("adjustRecordTime", "success")
                 /\ action = "extend" =>
                       /\ stored.minutes = record.minutes + 15
                       /\ stored.timestamp = record.timestamp
                 /\ action = "shrink" =>
                       /\ stored.minutes =
                            (IF record.minutes >= 30 THEN record.minutes - 15 ELSE 15)
                       /\ stored.timestamp = record.timestamp
                 /\ action = "move-earlier" =>
                       /\ stored.timestamp = record.timestamp - 15 * MsPerMinute
                       /\ stored.minutes = record.minutes
                 /\ action = "move-later" =>
                       /\ stored.timestamp = record.timestamp + 15 * MsPerMinute
                       /\ stored.minutes = record.minutes]_vars
    /\ [][\A recordId \in UpdatedRecordIds, action \in AdjustActions :
            (/\ adjustRecordTimeWith(recordId, action)
             /\ FindRecord(loaded, recordId) = Undefined) =>
              /\ db' = db
              /\ pending' = pending
              /\ ui' = Ui("adjustRecordTime", "rejected")]_vars

\* a record of 10 minutes was shrunk to 15 and then moved a quarter of an hour
\* earlier
ShrunkShortRecordAndMovedEarlier ==
    /\ ui = Ui("adjustRecordTime", "success")
    /\ \E i \in 1..Len(db.records) :
          /\ db.records[i].minutes = 15
          /\ db.records[i].timestamp = FirstTime + MsPerHour - 15 * MsPerMinute
    /\ \E i \in 1..Len(db.records) : db.records[i].minutes = 10

\* C24: adjustRecordTime leaves the category and the description of the
\* stored record as they were.
AdjustRecordTimeKeepsCategoryAndDescription ==
    [][\A recordId \in UpdatedRecordIds, action \in AdjustActions :
        (/\ adjustRecordTimeWith(recordId, action)
         /\ StoredRecord(db, recordId) # Undefined) =>
          /\ StoredRecord(db', recordId) # Undefined
          /\ StoredRecord(db', recordId)[1].categoryId =
                StoredRecord(db, recordId)[1].categoryId
          /\ StoredRecord(db', recordId)[1].description =
                StoredRecord(db, recordId)[1].description]_vars

\* C23: the week a mounted Week or Statistics screen shows starts on a Monday
\* at local 00:00, lies (next presses - prev presses) weeks after the week
\* that held the moment of mounting, and a "next" followed by a "prev" leads
\* back to the same week start and the same query keys.
WeekStartFollowsNavigation ==
    /\ [](week.screen # "none" =>
            /\ isoWeekday(week.currentWeek) = 1
            /\ MsOfDay(week.currentWeek) = 0
            /\ week.initialWeek <= now
            /\ now < week.initialWeek + 7 * MsPerDay
            /\ MsOfDay(week.initialWeek) = 0
            /\ (week.currentWeek + tz) \div MsPerDay =
                  (week.initialWeek + tz) \div MsPerDay
                    + (week.next - week.prev) * 7)
    /\ [][(NavigateWeek /\ week'.next > week.next) =>
            LET back == navigateWeek(week', "prev")
            IN /\ back.currentWeek = week.currentWeek
               /\ WEEK_RECORDS(back.currentWeek) = WEEK_RECORDS(week.currentWeek)
               /\ WEEK_STATS(back.currentWeek) = WEEK_STATS(week.currentWeek)
               /\ WEEK_RECORDS(week'.currentWeek) # WEEK_RECORDS(week.currentWeek)]_vars

\* opened on a Sunday, which in the zone ahead of UTC is already Monday, and
\* navigated one week back and one week forth
WeekNavigatedBackAndForth ==
    /\ week.screen = "week"
    /\ tz > 0
    /\ isoWeekday(now) = 1
    /\ isoWeekday(now - tz) = 7
    /\ week.next = 1
    /\ week.prev = 1
    /\ week.currentWeek = week.initialWeek

\* C25: in the statistics of a loaded week the total minutes of the listed
\* entries add up to totalWeekMinutes and their record counts add up to the
\* number of records of the week.
StatisticsCountEveryRecord ==
    week.data # Undefined =>
        LET records == week.data[1][1]
            stats == categoryStats(records, week.data[1][2])
        IN /\ SumOf(stats.categoryStats, "totalMinutes") = stats.totalWeekMinutes
           /\ SumOf(stats.categoryStats, "recordCount") = Len(records)

\* C26: a useCurrentTime hook has at most one interval timer scheduled at any
\* time, whatever the order of app-state changes, interval changes, timer
\* callbacks and unmount, and none once it is unmounted.
AtMostOneIntervalTimer ==
    /\ Len(timeHook.timers) <= 1
    /\ timeHook.phase = "unmounted" => timeHook.timers = <<>>
    /\ timeHook.timers # <<>> =>
          /\ timeHook.intervalRef = timeHook.timers[1].id
          /\ timeHook.timers[1].interval = timeHook.intervalMinutes * 60 * 1000

\* the only timer of a hook that is asked for the other interval was started
\* after the clock had advanced: it replaced the first timer
IntervalTimerReplaced ==
    /\ timeHook.phase = "subscribed"
    /\ Len(timeHook.timers) = 1
    /\ timeHook.timers[1].since > StartTime
    /\ timeHook.timers[1].since > timeHook.currentTime
    /\ appState = "active"

\* C27: no query of a screen runs a statement against a store whose tables do
\* not exist: the tables are created before the first queryFn is executed.
NoQueryBeforeTablesExist ==
    ret.op = "queryFn" => ret.error # "no such table"

\* C28: the block of every record the Today screen is given has
\* top = (local hour * 60 + local minute) * MINUTE_HEIGHT inside the timeline,
\* height = minutes * MINUTE_HEIGHT, and ends inside the timeline.
RecordBlockInsideTimeline ==
    ret.op = "fetchTodayRecords" =>
        \A i \in 1..Len(ret.rows) :
            LET r == ret.rows[i]
                position == getRecordPosition(r.timestamp, r.minutes)
            IN /\ position.top = ((r.timestamp + tz) % MsPerDay) \div MsPerMinute
               /\ 0 <= position.top
               /\ position.top < TIMELINE_HEIGHT
               /\ position.height = r.minutes
               /\ position.top + position.height <= TIMELINE_HEIGHT

\* C29: initializeDatabase on a store without categories leaves the
\* categories table with all three defaults or with none.
SeedingAllOrNothing ==
    [][((InitializeDatabase \/ InitializeDatabaseInterrupted)
          /\ db.categories = <<>>) =>
         Len(db'.categories) \in {0, Len(DefaultCategories)}]_vars

\* C30: a stored record with minutes >= 1, a timestamp on a full minute and a
\* trimmed description, opened in the edit modal of the Today or Week screen
\* and written back with Update while no field was changed, is stored as it
\* was.
RoundTripRecord(record) ==
    /\ record.minutes >= 1
    /\ record.timestamp % MsPerMinute = 0
    /\ trim(record.description) = record.description

EditRoundTrip ==
    [][(/\ UpdateEditedRecord
        /\ RoundTripRecord(form.editingRecord[1])
        /\ StoredRecord(db, form.editingRecord[1].id) = form.editingRecord) =>
          StoredRecord(db', form.editingRecord[1].id) = form.editingRecord]_vars

\* C16: a failed record mutation issued through the hooks is not attempted
\* again: one call of mutate() by a handler leads to at most one invocation
\* of the data access function, so no step runs the mutationFn of a mutation
\* that has failed before.
FailedMutationNotAttemptedAgain == [][~RetryMutation]_vars

====
